---- MODULE Spec2Model ----
(***************************************************************************)
(* Timecard system on Supabase: the approval module (js/approval.js), the  *)
(* store's tables and row level security policies (docs/database-          *)
(* schema.sql), the persistence functions of the timecard module and the   *)
(* dashboard handlers that call them.                                      *)
(*                                                                         *)
(* A nullable column holds NULL == <<>> or Some(v) == <<v>>.  A table is   *)
(* the set of its rows.  The primary key of an approvals row is in         *)
(* bijection with its UNIQUE(user_id, year, month) key, so the key stands  *)
(* for the id.  The created_at / updated_at columns are not modelled.      *)
(***************************************************************************)
EXTENDS Integers, FiniteSets, Sequences, TLC

VARIABLES
    approvals,        \* table approvals
    monthly_settings, \* table monthly_settings
    daily_records,    \* table daily_records
    clock,            \* the value new Date() returns
    last,             \* Spec's log: the last call of the approval module
    lastWrite,        \* the last insert/update the store applied to
                      \* monthly_settings or daily_records
    currentYear,      \* dashboard globals (one browser session, user Owner)
    currentMonth,
    monthlySettings,
    dailyRecords,
    isEditable,
    task,             \* the dashboard handler in flight and its locals
    calls,            \* SpecCalls: per browser session, the call of a
                      \* persistence function in flight and its locals
    calc,             \* SpecCalc: the arguments of a pure function and the
                      \* value it returned
    loads,            \* SpecLoads: the loadMonthData calls in flight, each
                      \* with the month its pending read was issued for
    readFor           \* SpecLoads: the month each of the three cached
                      \* values was read for

vars == <<approvals, monthly_settings, daily_records, clock, last, lastWrite,
          currentYear, currentMonth, monthlySettings, dailyRecords,
          isEditable, task, calls, calc, loads, readFor>>

storeVars == <<approvals, monthly_settings, daily_records>>
dashVars  == <<currentYear, currentMonth, monthlySettings, dailyRecords,
               isEditable, task>>

----------------------------------------------------------------------------
(* Bounds *)

MaxClock == 2   \* timestamps range over 1..MaxClock

MaxRecords == 3 \* calculateMonthlySummary is given at most MaxRecords records

MaxSteps == 3   \* changeMonth is clicked at most MaxSteps times in a row

MaxLoads == 2   \* at most MaxLoads calls of loadMonthData are in flight

----------------------------------------------------------------------------
(* Values *)

NULL == <<>>
Some(v) == <<v>>

APPROVAL_STATUS ==
    [DRAFT |-> "draft", PENDING |-> "pending",
     APPROVED |-> "approved", REJECTED |-> "rejected"]

\* user_profiles: u1 and u2 are general users, a1 is an approver.
user_profiles ==
    [u1 |-> [is_approver |-> FALSE],
     u2 |-> [is_approver |-> FALSE],
     a1 |-> [is_approver |-> TRUE]]

Actors == DOMAIN user_profiles

\* The user whose timecard is modelled (currentUser of the dashboard).
Owner == "u1"

\* The months the model covers: a year boundary.
Months == {[year |-> 2024, month |-> 12], [year |-> 2025, month |-> 1]}

Reasons == {"fix day 3"}

\* What the user may type into the forms
Days == {1}
OvertimeChoices == {0, 60}
StandardHoursChoices == {8}

Key(userId, ym) == [user_id |-> userId, year |-> ym.year, month |-> ym.month]

RowKey(row) == [user_id |-> row.user_id, year |-> row.year, month |-> row.month]

ApprovalIds == {Key(Owner, ym) : ym \in Months}

----------------------------------------------------------------------------
(* Row level security *)

is_approver(uid) == user_profiles[uid].is_approver

\* "Users can manage own approvals" OR "Approvers can manage all approvals"
ApprovalsPolicy(uid, row) == uid = row.user_id \/ is_approver(uid)

\* "Users can manage own monthly settings"
MonthlySettingsPolicy(uid, row) == uid = row.user_id

\* The policy without its NOT EXISTS (approved approval) clause
DailyRecordsPolicy_ownerOnly(uid, row, approvalRows) == uid = row.user_id

\* "Users can manage own daily records": the owner, unless the approval of
\* the record's month is approved.
DailyRecordsPolicy(uid, row, approvalRows) ==
    /\ uid = row.user_id
    /\ ~\E a \in approvalRows :
          /\ a.user_id = row.user_id
          /\ a.year = row.work_date.year
          /\ a.month = row.work_date.month
          /\ a.status = "approved"

----------------------------------------------------------------------------
(* The store's statements.  Each is one atomic statement of the database;  *)
(* a result is [data, error] as the client library returns it.             *)

RowsOf(table, key) == {r \in table : RowKey(r) = key}

\* .select(...).eq(key).single(): the one visible row, else error PGRST116
single(rows) ==
    IF Cardinality(rows) = 1
    THEN [data |-> Some(CHOOSE r \in rows : TRUE), error |-> NULL]
    ELSE [data |-> NULL, error |-> Some("PGRST116")]

Patched(row, patch) ==
    [f \in DOMAIN row |-> IF f \in DOMAIN patch THEN patch[f] ELSE row[f]]

\* .from('approvals').select().eq(user_id, year, month).single()
ApprovalsSelect(uid, table, key) ==
    single({r \in RowsOf(table, key) : ApprovalsPolicy(uid, r)})

\* .from('approvals').update(patch).eq('id', id): the rows the policy lets
\* uid update are patched; a statement that matches no row is no error.
ApprovalsUpdate(uid, table, id, patch) ==
    [rows  |-> {IF RowKey(r) = id /\ ApprovalsPolicy(uid, r)
                THEN Patched(r, patch) ELSE r : r \in table},
     error |-> NULL]

\* ApprovalsInsert on a table without UNIQUE(user_id, year, month)
ApprovalsInsert_noUnique(uid, table, row) ==
    IF ~ApprovalsPolicy(uid, row)
    THEN [rows |-> table, error |-> Some("42501")]
    ELSE [rows |-> table \cup {row}, error |-> NULL]

\* .from('approvals').insert(row): refused by the policy's check or by
\* UNIQUE(user_id, year, month)
ApprovalsInsert(uid, table, row) ==
    IF ~ApprovalsPolicy(uid, row)
    THEN [rows |-> table, error |-> Some("42501")]
    ELSE IF RowsOf(table, RowKey(row)) # {}
    THEN [rows |-> table, error |-> Some("23505")]
    ELSE [rows |-> table \cup {row}, error |-> NULL]

\* "Users can view own approved records" OR "Approvers can view all daily
\* records" (the manage policy's rows are the owner's too)
DailyRecordsSelectPolicy(uid, row) == uid = row.user_id \/ is_approver(uid)

\* "Users can manage own monthly settings" OR "Approvers can view all
\* monthly settings"
MonthlySettingsSelectPolicy(uid, row) == uid = row.user_id \/ is_approver(uid)

DailyKey(row) == [user_id |-> row.user_id, work_date |-> row.work_date]

\* .from('daily_records').select('id').eq(user_id).eq(work_date).single()
DailyRecordsSelect(uid, table, key) ==
    single({r \in table : DailyKey(r) = key /\ DailyRecordsSelectPolicy(uid, r)})

\* .from('daily_records').update(record).eq('id', id): the policy's USING
\* picks the rows, its check applies to the new row; no matching row is no
\* error.  applied tells whether a row was written.
DailyRecordsUpdate(uid, table, approvalRows, id, record) ==
    LET hit == {r \in table :
                  DailyKey(r) = id /\ DailyRecordsPolicy(uid, r, approvalRows)}
    IN  IF hit = {}
        THEN [rows |-> table, error |-> NULL, applied |-> FALSE]
        ELSE IF ~DailyRecordsPolicy(uid, record, approvalRows)
        THEN [rows |-> table, error |-> Some("42501"), applied |-> FALSE]
        ELSE [rows |-> (table \ hit) \cup {record}, error |-> NULL,
              applied |-> TRUE]

\* .from('daily_records').insert(record): refused by the policy's check or
\* by UNIQUE(user_id, work_date)
DailyRecordsInsert(uid, table, approvalRows, record) ==
    IF ~DailyRecordsPolicy(uid, record, approvalRows)
    THEN [rows |-> table, error |-> Some("42501"), applied |-> FALSE]
    ELSE IF \E r \in table : DailyKey(r) = DailyKey(record)
    THEN [rows |-> table, error |-> Some("23505"), applied |-> FALSE]
    ELSE [rows |-> table \cup {record}, error |-> NULL, applied |-> TRUE]

\* .from('monthly_settings').select('id').eq(user_id, year, month).single()
MonthlySettingsSelect(uid, table, key) ==
    single({r \in RowsOf(table, key) : MonthlySettingsSelectPolicy(uid, r)})

\* .from('monthly_settings').update(settings).eq('id', id)
MonthlySettingsUpdate(uid, table, id, settings) ==
    LET hit == {r \in RowsOf(table, id) : MonthlySettingsPolicy(uid, r)} IN
    IF hit = {}
    THEN [rows |-> table, error |-> NULL, applied |-> FALSE]
    ELSE IF ~MonthlySettingsPolicy(uid, settings)
    THEN [rows |-> table, error |-> Some("42501"), applied |-> FALSE]
    ELSE [rows |-> (table \ hit) \cup {settings}, error |-> NULL,
          applied |-> TRUE]

\* .from('monthly_settings').insert(settings)
MonthlySettingsInsert(uid, table, settings) ==
    IF ~MonthlySettingsPolicy(uid, settings)
    THEN [rows |-> table, error |-> Some("42501"), applied |-> FALSE]
    ELSE IF RowsOf(table, RowKey(settings)) # {}
    THEN [rows |-> table, error |-> Some("23505"), applied |-> FALSE]
    ELSE [rows |-> table \cup {settings}, error |-> NULL, applied |-> TRUE]

----------------------------------------------------------------------------
(* The timecard module's persistence functions.  A save reads the existing *)
(* id and then writes: two statements, two steps.                          *)

\* {success, message}
Result(ok, msg) == [success |-> ok, message |-> msg]

getMonthlySettings(uid, table, key) == MonthlySettingsSelect(uid, table, key).data

\* The rows of the month the caller may see (an array in the code; its
\* order plays no part here)
getDailyRecords(uid, table, userId, ym) ==
    {r \in table : /\ r.user_id = userId
                   /\ r.work_date.year = ym.year
                   /\ r.work_date.month = ym.month
                   /\ DailyRecordsSelectPolicy(uid, r)}

\* saveDailyRecord after its select returned existing
saveDailyRecordWrite(uid, table, approvalRows, existing, record) ==
    LET r == IF existing # NULL
             THEN DailyRecordsUpdate(uid, table, approvalRows,
                                     DailyKey(existing[1]), record)
             ELSE DailyRecordsInsert(uid, table, approvalRows, record)
    IN  IF r.error # NULL
        THEN [rows |-> table, applied |-> FALSE,
              result |-> Result(FALSE, r.error[1])]
        ELSE [rows |-> r.rows, applied |-> r.applied,
              result |-> Result(TRUE, "saved")]

\* saveMonthlySettings after its select returned existing
saveMonthlySettingsWrite(uid, table, existing, settings) ==
    LET r == IF existing # NULL
             THEN MonthlySettingsUpdate(uid, table, RowKey(existing[1]), settings)
             ELSE MonthlySettingsInsert(uid, table, settings)
    IN  IF r.error # NULL
        THEN [rows |-> table, applied |-> FALSE,
              result |-> Result(FALSE, r.error[1])]
        ELSE [rows |-> r.rows, applied |-> r.applied,
              result |-> Result(TRUE, "settings saved")]

----------------------------------------------------------------------------
(* The timecard module's calculations.  A JavaScript string is Some(chars), *)
(* chars the sequence of its characters; null is NULL; undefined is a      *)
(* value of its own.  Clock times are strings "HH:MM".                      *)

UNDEFINED == <<NULL, NULL>>

EmptyString == Some(<<>>)

\* !v for a value that is null, undefined or a string
Falsy(v) == v = NULL \/ v = UNDEFINED \/ v = EmptyString

\* a || b
Or(a, b) == IF Falsy(a) THEN b ELSE a

DigitChars == <<"0", "1", "2", "3", "4", "5", "6", "7", "8", "9">>

\* The text "HH:MM" an <input type="time"> yields for hour h and minute m
HHMM(h, m) ==
    Some(<<DigitChars[(h \div 10) + 1], DigitChars[(h % 10) + 1], ":",
           DigitChars[(m \div 10) + 1], DigitChars[(m % 10) + 1]>>)

RECURSIVE SplitFrom(_, _, _, _)
\* String.prototype.split: cur is the piece being read, i the position
SplitFrom(chars, sep, i, cur) ==
    IF i > Len(chars) THEN <<cur>>
    ELSE IF chars[i] = sep
    THEN <<cur>> \o SplitFrom(chars, sep, i + 1, <<>>)
    ELSE SplitFrom(chars, sep, i + 1, Append(cur, chars[i]))

split(chars, sep) == SplitFrom(chars, sep, 1, <<>>)

DigitValue(c) == (CHOOSE d \in 1..10 : DigitChars[d] = c) - 1

RECURSIVE NumberFrom(_, _, _)
NumberFrom(chars, i, acc) ==
    IF i > Len(chars) THEN acc
    ELSE NumberFrom(chars, i + 1, 10 * acc + DigitValue(chars[i]))

\* Number(text) for a text of decimal digits; Number("") is 0
Number(chars) == NumberFrom(chars, 1, 0)

Math_max(a, b) == IF a >= b THEN a ELSE b

Math_min(a, b) == IF a <= b THEN a ELSE b

\* timeToMinutes that drops the minutes
timeToMinutes_hoursOnly(timeStr) ==
    IF Falsy(timeStr) THEN 0
    ELSE LET parts == split(timeStr[1], ":") IN Number(parts[1]) * 60

timeToMinutes(timeStr) ==
    IF Falsy(timeStr) THEN 0
    ELSE LET parts   == split(timeStr[1], ":")
             hours   == Number(parts[1])
             minutes == Number(parts[2])
         IN  hours * 60 + minutes

BreakStartFields == <<"break1_start", "break2_start", "break3_start">>

BreakEndFields == <<"break1_end", "break2_end", "break3_end">>

RECURSIVE BreakTimeFrom(_, _, _)
\* the loop of calculateBreakTime from i on, totalBreak so far
BreakTimeFrom(pattern, i, totalBreak) ==
    IF i > 3 THEN totalBreak
    ELSE LET breakStart == pattern[BreakStartFields[i]]
             breakEnd   == pattern[BreakEndFields[i]]
         IN  BreakTimeFrom(pattern, i + 1,
                IF ~Falsy(breakStart) /\ ~Falsy(breakEnd)
                THEN totalBreak + timeToMinutes(breakEnd)
                                - timeToMinutes(breakStart)
                ELSE totalBreak)

RECURSIVE BreakTimeFrom_halfPairs(_, _, _)
BreakTimeFrom_halfPairs(pattern, i, totalBreak) ==
    IF i > 3 THEN totalBreak
    ELSE BreakTimeFrom_halfPairs(pattern, i + 1,
            totalBreak + timeToMinutes(pattern[BreakEndFields[i]])
                       - timeToMinutes(pattern[BreakStartFields[i]]))

\* calculateBreakTime that also counts a pair with one end missing
calculateBreakTime_halfPairs(pattern) == BreakTimeFrom_halfPairs(pattern, 1, 0)

calculateBreakTime(pattern) == BreakTimeFrom(pattern, 1, 0)

\* calculateWorkTime floored at 0
calculateWorkTime_clamped(startTime, endTime, pattern) ==
    IF Falsy(startTime) \/ Falsy(endTime) THEN 0
    ELSE Math_max(0, timeToMinutes(endTime) - timeToMinutes(startTime)
                       - calculateBreakTime(pattern))

calculateWorkTime(startTime, endTime, pattern) ==
    IF Falsy(startTime) \/ Falsy(endTime) THEN 0
    ELSE LET startMinutes == timeToMinutes(startTime)
             endMinutes   == timeToMinutes(endTime)
             breakMinutes == calculateBreakTime(pattern)
         IN  endMinutes - startMinutes - breakMinutes

\* calculateOvertime that counts holiday work as normal overtime
calculateOvertime_holidayAsNormal(workTime, standardHours, workType) ==
    [total |-> workTime, normal |-> workTime, night |-> 0,
     legalHoliday |-> 0, extraHoliday |-> 0]

calculateOvertime(workTime, standardHours, workType) ==
    LET standardMinutes == standardHours * 60 IN
    IF workType = "legal-holiday" \/ workType = "extra-holiday"
    THEN [total |-> workTime,
          normal |-> 0,
          night |-> 0,
          legalHoliday |-> IF workType = "legal-holiday" THEN workTime ELSE 0,
          extraHoliday |-> IF workType = "extra-holiday" THEN workTime ELSE 0]
    ELSE LET overtime == Math_max(0, workTime - standardMinutes) IN
         [total |-> overtime,
          normal |-> overtime,
          night |-> 0,
          legalHoliday |-> 0,
          extraHoliday |-> 0]

\* calculateNightOvertime that counts the hours after 22:00 only
calculateNightOvertime_noMorning(startTime, endTime, standardHours) ==
    IF Falsy(startTime) \/ Falsy(endTime) THEN 0
    ELSE LET startMinutes == timeToMinutes(startTime)
             endMinutes   == timeToMinutes(endTime)
         IN  IF endMinutes > 22 * 60
             THEN Math_max(0, Math_min(endMinutes, 24 * 60)
                                - Math_max(startMinutes, 22 * 60))
             ELSE 0

calculateNightOvertime(startTime, endTime, standardHours) ==
    IF Falsy(startTime) \/ Falsy(endTime) THEN 0
    ELSE LET startMinutes == timeToMinutes(startTime)
             endMinutes   == timeToMinutes(endTime)
             nightStart   == 22 * 60
             morningEnd   == 5 * 60
             afterNight   == IF endMinutes > nightStart
                             THEN Math_min(endMinutes, 24 * 60)
                                    - Math_max(startMinutes, nightStart)
                             ELSE 0
             beforeMorning == IF startMinutes < morningEnd
                              THEN Math_min(endMinutes, morningEnd)
                                     - startMinutes
                              ELSE 0
             nightMinutes == afterNight + beforeMorning
         IN  Math_max(0, nightMinutes)

\* calculateLateTime without its floor: an early arrival counts negative
calculateLateTime_signed(actualStart, scheduledStart) ==
    IF Falsy(actualStart) \/ Falsy(scheduledStart) THEN 0
    ELSE timeToMinutes(actualStart) - timeToMinutes(scheduledStart)

calculateLateTime(actualStart, scheduledStart) ==
    IF Falsy(actualStart) \/ Falsy(scheduledStart) THEN 0
    ELSE Math_max(0, timeToMinutes(actualStart)
                       - timeToMinutes(scheduledStart))

calculateEarlyLeaveTime(actualEnd, scheduledEnd) ==
    IF Falsy(actualEnd) \/ Falsy(scheduledEnd) THEN 0
    ELSE Math_max(0, timeToMinutes(scheduledEnd)
                       - timeToMinutes(actualEnd))

PatternFields == {"start", "end", "break1_start", "break1_end",
                  "break2_start", "break2_end", "break3_start", "break3_end"}

\* `${prefix}${field}` for prefix = `pattern${patternNumber}_`
SettingsField ==
    <<[start |-> "pattern1_start",
       end |-> "pattern1_end",
       break1_start |-> "pattern1_break1_start",
       break1_end |-> "pattern1_break1_end",
       break2_start |-> "pattern1_break2_start",
       break2_end |-> "pattern1_break2_end",
       break3_start |-> "pattern1_break3_start",
       break3_end |-> "pattern1_break3_end"],
      [start |-> "pattern2_start",
       end |-> "pattern2_end",
       break1_start |-> "pattern2_break1_start",
       break1_end |-> "pattern2_break1_end",
       break2_start |-> "pattern2_break2_start",
       break2_end |-> "pattern2_break2_end",
       break3_start |-> "pattern2_break3_start",
       break3_end |-> "pattern2_break3_end"],
      [start |-> "pattern3_start",
       end |-> "pattern3_end",
       break1_start |-> "pattern3_break1_start",
       break1_end |-> "pattern3_break1_end",
       break2_start |-> "pattern3_break2_start",
       break2_end |-> "pattern3_break2_end",
       break3_start |-> "pattern3_break3_start",
       break3_end |-> "pattern3_break3_end"]>>

DefaultPattern ==
    [start |-> HHMM(9, 0), end |-> HHMM(18, 0),
     break1_start |-> HHMM(12, 0), break1_end |-> HHMM(13, 0),
     break2_start |-> NULL, break2_end |-> NULL,
     break3_start |-> NULL, break3_end |-> NULL]

\* getPatternFromSettings that fills a missing first break with 12:00-13:00
getPatternFromSettings_defaultBreak(settings, patternNumber) ==
    IF settings = NULL THEN DefaultPattern
    ELSE LET prefix == SettingsField[patternNumber]
             row == settings[1]
         IN  [f \in PatternFields |->
                 Or(row[prefix[f]], DefaultPattern[f])]

\* settings is NULL or Some(row of monthly_settings)
getPatternFromSettings(settings, patternNumber) ==
    IF settings = NULL THEN DefaultPattern
    ELSE LET prefix == SettingsField[patternNumber]
             row == settings[1]
         IN  [start |-> Or(row[prefix.start], HHMM(9, 0)),
              end |-> Or(row[prefix.end], HHMM(18, 0)),
              break1_start |-> row[prefix.break1_start],
              break1_end |-> row[prefix.break1_end],
              break2_start |-> row[prefix.break2_start],
              break2_end |-> row[prefix.break2_end],
              break3_start |-> row[prefix.break3_start],
              break3_end |-> row[prefix.break3_end]]

\* A nullable number or text column as a condition: null, 0 and '' are false
Truthy(v) == v # NULL /\ v[1] # 0

TruthyText(v) == v # NULL /\ v[1] # ""

\* workDays++ of calculateMonthlySummary that leaves out the test of the
\* holiday types
WorkDayOf_countsHolidays(record) ==
    IF TruthyText(record.work_type)
       /\ ~Falsy(record.start_time) /\ ~Falsy(record.end_time)
    THEN 1 ELSE 0

\* calculateMonthlySummary: what a record adds to workDays
WorkDayOf(record) ==
    IF TruthyText(record.work_type)
       /\ record.work_type[1] \notin {"legal-holiday", "extra-holiday"}
    THEN IF ~Falsy(record.start_time) /\ ~Falsy(record.end_time)
         THEN 1 ELSE 0
    ELSE 0

\* totalWorkMinutes computed with pattern 1 whatever the record's pattern
WorkMinutesOf_patternOne(record, settings) ==
    IF ~Falsy(record.start_time) /\ ~Falsy(record.end_time)
    THEN calculateWorkTime(record.start_time, record.end_time,
                           getPatternFromSettings(settings, 1))
    ELSE 0

\* calculateMonthlySummary: what a record adds to totalWorkMinutes
WorkMinutesOf(record, settings) ==
    IF ~Falsy(record.start_time) /\ ~Falsy(record.end_time)
    THEN LET pattern == getPatternFromSettings(settings,
                            IF Truthy(record.work_pattern)
                            THEN record.work_pattern[1] ELSE 1)
         IN  calculateWorkTime(record.start_time, record.end_time, pattern)
    ELSE 0

\* The overtime routing that adds holiday overtime to totalOvertime as well
OvertimeOf_holidayTwice(record) ==
    LET overtime == IF Truthy(record.overtime) THEN record.overtime[1] ELSE 0
    IN  [totalOvertime |-> overtime,
         legalHolidayOvertime |->
             IF record.work_type = Some("legal-holiday") THEN overtime ELSE 0,
         extraHolidayOvertime |->
             IF record.work_type = Some("extra-holiday") THEN overtime ELSE 0]

\* calculateMonthlySummary: what a record adds to the three overtime sums
OvertimeOf(record) ==
    IF Truthy(record.overtime)
    THEN IF record.work_type = Some("legal-holiday")
         THEN [totalOvertime |-> 0, legalHolidayOvertime |-> record.overtime[1],
               extraHolidayOvertime |-> 0]
         ELSE IF record.work_type = Some("extra-holiday")
         THEN [totalOvertime |-> 0, legalHolidayOvertime |-> 0,
               extraHolidayOvertime |-> record.overtime[1]]
         ELSE [totalOvertime |-> record.overtime[1],
               legalHolidayOvertime |-> 0, extraHolidayOvertime |-> 0]
    ELSE [totalOvertime |-> 0, legalHolidayOvertime |-> 0,
          extraHolidayOvertime |-> 0]

RECURSIVE SummaryFrom(_, _, _, _)
\* the loop of calculateMonthlySummary from record i on
SummaryFrom(records, settings, i, summary) ==
    IF i > Len(records) THEN summary
    ELSE LET record == records[i]
             overtime == OvertimeOf(record)
         IN  SummaryFrom(records, settings, i + 1,
                [workDays |-> summary.workDays + WorkDayOf(record),
                 totalWorkMinutes |->
                     summary.totalWorkMinutes + WorkMinutesOf(record, settings),
                 totalOvertime |->
                     summary.totalOvertime + overtime.totalOvertime,
                 nightOvertime |->
                     summary.nightOvertime
                       + (IF Truthy(record.night_overtime)
                          THEN record.night_overtime[1] ELSE 0),
                 legalHolidayOvertime |->
                     summary.legalHolidayOvertime
                       + overtime.legalHolidayOvertime,
                 extraHolidayOvertime |->
                     summary.extraHolidayOvertime
                       + overtime.extraHolidayOvertime])

\* records is the sequence of the daily records, settings is NULL or
\* Some(row of monthly_settings)
calculateMonthlySummary(records, settings) ==
    SummaryFrom(records, settings, 1,
                [workDays |-> 0, totalWorkMinutes |-> 0, totalOvertime |-> 0,
                 nightOvertime |-> 0, legalHolidayOvertime |-> 0,
                 extraHolidayOvertime |-> 0])

\* The export.  A character outside ASCII is written as its code point, so
\* the label of "work" is the two characters <<"U+51FA", "U+52E4">>.

RECURSIVE DigitsOf(_)
DigitsOf(n) ==
    IF n < 10 THEN <<DigitChars[n + 1]>>
    ELSE Append(DigitsOf(n \div 10), DigitChars[(n % 10) + 1])

\* `${n}` for an integer n
String(n) == IF n < 0 THEN <<"-">> \o DigitsOf(-n) ELSE DigitsOf(n)

RECURSIVE JoinFrom(_, _, _)
JoinFrom(items, sep, i) ==
    IF i > Len(items) THEN <<>>
    ELSE IF i = Len(items) THEN items[i]
    ELSE items[i] \o sep \o JoinFrom(items, sep, i + 1)

\* Array.prototype.join
join(items, sep) == JoinFrom(items, sep, 1)

RECURSIVE replace(_, _, _)
\* String.prototype.replace with a one-character global pattern
replace(chars, pattern, replacement) ==
    IF chars = <<>> THEN <<>>
    ELSE (IF Head(chars) = pattern THEN replacement ELSE <<Head(chars)>>)
            \o replace(Tail(chars), pattern, replacement)

\* new Date(year, monthIndex, day) as the number of days since 1970-01-01;
\* monthIndex counts from 0 and may be 12, day may be 0
Date(year, monthIndex, day) ==
    LET yy == year + (monthIndex \div 12)
        mm == (monthIndex % 12) + 1
        y == IF mm <= 2 THEN yy - 1 ELSE yy
        era == y \div 400
        yoe == y - era * 400
        doy == ((153 * (IF mm > 2 THEN mm - 3 ELSE mm + 9) + 2) \div 5) + day - 1
        doe == yoe * 365 + (yoe \div 4) - (yoe \div 100) + doy
    IN  era * 146097 + doe - 719468

\* Date.prototype.getDate for the day before the first of monthIndex
getDate_lastOf(year, monthIndex) ==
    Date(year, monthIndex, 0) - Date(year, monthIndex - 1, 1) + 1

\* Date.prototype.getDay: 1970-01-01 was a Thursday
getDay(date) == (date + 4) % 7

getDaysInMonth(year, month) == getDate_lastOf(year, month)

WeekDays == <<"U+65E5", "U+6708", "U+706B", "U+6C34", "U+6728", "U+91D1",
    "U+571F">>

getDayOfWeek(year, month, day) ==
    <<WeekDays[getDay(Date(year, month - 1, day)) + 1]>>

\* labels[workType] || '' for a work type that is NULL or Some(code)
getWorkTypeLabel(workType) ==
    IF workType = Some("work")
    THEN <<"U+51FA", "U+52E4">>
    ELSE IF workType = Some("remote")
    THEN <<"U+51FA", "U+52E4", "U+FF08", "U+30EA", "U+30E2", "U+30FC",
           "U+30C8", "U+FF09">>
    ELSE IF workType = Some("late")
    THEN <<"U+9045", "U+523B">>
    ELSE IF workType = Some("early-leave")
    THEN <<"U+65E9", "U+9000">>
    ELSE IF workType = Some("late-early")
    THEN <<"U+9045", "U+523B", "U+FF0B", "U+65E9", "U+9000">>
    ELSE IF workType = Some("legal-holiday")
    THEN <<"U+4F11", "U+65E5", "U+FF08", "U+6CD5", "U+5B9A", "U+FF09">>
    ELSE IF workType = Some("extra-holiday")
    THEN <<"U+4F11", "U+65E5", "U+FF08", "U+6CD5", "U+5B9A", "U+5916",
           "U+FF09">>
    ELSE <<>>

getLeaveTypeLabel(leaveType) ==
    IF leaveType = Some("paid")
    THEN <<"U+6709", "U+4F11">>
    ELSE IF leaveType = Some("absent")
    THEN <<"U+6B20", "U+52E4">>
    ELSE IF leaveType = Some("special")
    THEN <<"U+7279", "U+4F11">>
    ELSE IF leaveType = Some("congratulation")
    THEN <<"U+6176", "U+5F14">>
    ELSE <<>>

headers ==
    <<<<"U+65E5", "U+4ED8">>,
      <<"U+66DC", "U+65E5">>,
      <<"U+52E4", "U+52D9", "U+7A2E", "U+985E">>,
      <<"U+51FA", "U+52E4", "U+6642", "U+523B">>,
      <<"U+9000", "U+52E4", "U+6642", "U+523B">>,
      <<"U+9045", "U+523B", "U+6642", "U+9593">>,
      <<"U+65E9", "U+9000", "U+6642", "U+9593">>,
      <<"U+6B8B", "U+696D", "U+6642", "U+9593">>,
      <<"U+6DF1", "U+591C", "U+6B8B", "U+696D">>,
      <<"U+4F11", "U+6687", "U+7A2E", "U+985E">>,
      <<"U+88DC", "U+8DB3">>>>

\* `${minutes}U+5206` when the stored number is neither null nor 0, else ''
MinutesCell(v) == IF Truthy(v) THEN Append(String(v[1]), "U+5206") ELSE <<>>

\* The note written without quotes and without doubling
NoteCell_bare(note) == IF Falsy(note) THEN <<>> ELSE note[1]

\* `"${(record.note || '').replace(/"/g, '""')}"`
NoteCell(note) ==
    <<"\"">> \o replace(IF Falsy(note) THEN <<>> ELSE note[1],
                        "\"", <<"\"", "\"">>) \o <<"\"">>

\* recordMap[day] || {} : every field of {} is undefined
EmptyRecord ==
    [work_date |-> NULL, work_type |-> NULL, start_time |-> NULL,
     end_time |-> NULL, late_time |-> NULL, early_leave_time |-> NULL,
     overtime |-> NULL, night_overtime |-> NULL, leave_type |-> NULL,
     note |-> NULL]

\* new Date(record.work_date).getDate(): the day of the date, the export
\* running in the zone the dates were recorded in
DayOfDate(work_date) == work_date.day

\* recordMap[day] || {} after the loop over records: the last record of the
\* day wins
RecordOfDay(records, day) ==
    LET at == {i \in 1..Len(records) : DayOfDate(records[i].work_date) = day}
    IN  IF at = {} THEN EmptyRecord
        ELSE records[CHOOSE i \in at : \A j \in at : j <= i]

\* One data row of generateCSV
CsvRow(record, year, month, day) ==
    join(<<String(year) \o <<"/">> \o String(month) \o <<"/">> \o String(day),
           getDayOfWeek(year, month, day),
           getWorkTypeLabel(record.work_type),
           IF Falsy(record.start_time) THEN <<>> ELSE record.start_time[1],
           IF Falsy(record.end_time) THEN <<>> ELSE record.end_time[1],
           MinutesCell(record.late_time),
           MinutesCell(record.early_leave_time),
           MinutesCell(record.overtime),
           MinutesCell(record.night_overtime),
           getLeaveTypeLabel(record.leave_type),
           NoteCell(record.note)>>, <<",">>)

\* The text of the file, as the sequence of its characters
generateCSV(records, settings, year, month) ==
    LET daysInMonth == getDaysInMonth(year, month)
        rows == <<join(headers, <<",">>)>> \o
                [day \in 1..daysInMonth |->
                    CsvRow(RecordOfDay(records, day), year, month, day)]
    IN  join(rows, <<"\n">>)

\* calculateTimesFromInput: the values it writes to the form's late-time,
\* early-leave-time and overtime fields; NULL when it returns without
\* writing.  (The fields hold integers as text; parseInt reads them back.)
calculateTimesFromInput(startTime, endTime, workType, patternNum, settings) ==
    IF Falsy(startTime) \/ Falsy(endTime) \/ settings = NULL
    THEN NULL
    ELSE LET pattern == getPatternFromSettings(settings, patternNum)
             standardHours == IF settings[1].standard_hours = 0 THEN 8
                              ELSE settings[1].standard_hours
             lateTime == calculateLateTime(startTime, pattern.start)
             earlyLeaveTime == calculateEarlyLeaveTime(endTime, pattern.end)
             workTime == calculateWorkTime(startTime, endTime, pattern)
             overtime == calculateOvertime(workTime, standardHours, workType)
         IN  Some([late_time |-> lateTime,
                   early_leave_time |-> earlyLeaveTime,
                   overtime |-> overtime.total])

----------------------------------------------------------------------------
(* js/approval.js.  Each function maps the table to [rows, result].        *)

\* Column defaults of a new approvals row
NewApproval(key, status, now) ==
    [user_id |-> key.user_id, year |-> key.year, month |-> key.month,
     status |-> status, requested_at |-> Some(now),
     approved_by |-> NULL, approved_at |-> NULL, rejection_reason |-> NULL]

getApprovalStatus(uid, table, key, err) ==
    IF err # "none" THEN NULL ELSE ApprovalsSelect(uid, table, key).data

\* requestApproval with the update leaving requested_at as it was
requestApproval_staleRequestedAt(uid, table, key, now) ==
    LET existing == ApprovalsSelect(uid, table, key).data IN
    IF existing # NULL
    THEN IF existing[1].status = APPROVAL_STATUS.APPROVED
         THEN [rows |-> table,
               result |-> Result(FALSE, "already approved")]
         ELSE LET r == ApprovalsUpdate(uid, table, RowKey(existing[1]),
                           [status |-> APPROVAL_STATUS.PENDING])
              IN  [rows |-> r.rows, result |-> Result(TRUE, "request sent")]
    ELSE LET r == ApprovalsInsert(uid, table,
                      NewApproval(key, APPROVAL_STATUS.PENDING, now))
         IN  IF r.error # NULL
             THEN [rows |-> table, result |-> Result(FALSE, "request failed")]
             ELSE [rows |-> r.rows, result |-> Result(TRUE, "request sent")]

\* requestApproval without the check for an approved month
requestApproval_noApprovedCheck(uid, table, key, now) ==
    LET existing == ApprovalsSelect(uid, table, key).data IN
    IF existing # NULL
    THEN LET r == ApprovalsUpdate(uid, table, RowKey(existing[1]),
                      [status |-> APPROVAL_STATUS.PENDING,
                       requested_at |-> Some(now)])
         IN  [rows |-> r.rows, result |-> Result(TRUE, "request sent")]
    ELSE LET r == ApprovalsInsert(uid, table,
                      NewApproval(key, APPROVAL_STATUS.PENDING, now))
         IN  IF r.error # NULL
             THEN [rows |-> table, result |-> Result(FALSE, "request failed")]
             ELSE [rows |-> r.rows, result |-> Result(TRUE, "request sent")]

requestApproval(uid, table, key, now) ==
    LET existing == ApprovalsSelect(uid, table, key).data IN
    IF existing # NULL
    THEN IF existing[1].status = APPROVAL_STATUS.APPROVED
         THEN [rows |-> table,
               result |-> Result(FALSE, "already approved")]
         ELSE LET r == ApprovalsUpdate(uid, table, RowKey(existing[1]),
                           [status |-> APPROVAL_STATUS.PENDING,
                            requested_at |-> Some(now)])
              IN  IF r.error # NULL
                  THEN [rows |-> table, result |-> Result(FALSE, "request failed")]
                  ELSE [rows |-> r.rows, result |-> Result(TRUE, "request sent")]
    ELSE LET r == ApprovalsInsert(uid, table,
                      NewApproval(key, APPROVAL_STATUS.PENDING, now))
         IN  IF r.error # NULL
             THEN [rows |-> table, result |-> Result(FALSE, "request failed")]
             ELSE [rows |-> r.rows, result |-> Result(TRUE, "request sent")]

approve(uid, table, approvalId, approverId, now) ==
    LET r == ApprovalsUpdate(uid, table, approvalId,
                 [status |-> APPROVAL_STATUS.APPROVED,
                  approved_by |-> Some(approverId),
                  approved_at |-> Some(now)])
    IN  IF r.error # NULL
        THEN [rows |-> table, result |-> Result(FALSE, "approve failed")]
        ELSE [rows |-> r.rows, result |-> Result(TRUE, "approved")]

reject(uid, table, approvalId, approverId, reason, now) ==
    LET r == ApprovalsUpdate(uid, table, approvalId,
                 [status |-> APPROVAL_STATUS.REJECTED,
                  approved_by |-> Some(approverId),
                  approved_at |-> Some(now),
                  rejection_reason |-> Some(reason)])
    IN  IF r.error # NULL
        THEN [rows |-> table, result |-> Result(FALSE, "reject failed")]
        ELSE [rows |-> r.rows, result |-> Result(TRUE, "rejected")]

\* cancelApproval that resets the status only
cancelApproval_keepsMetadata(uid, table, approvalId, approverId, now) ==
    LET r == ApprovalsUpdate(uid, table, approvalId,
                 [status |-> APPROVAL_STATUS.DRAFT])
    IN  [rows |-> r.rows, result |-> Result(TRUE, "approval cancelled")]

cancelApproval(uid, table, approvalId, approverId, now) ==
    LET r == ApprovalsUpdate(uid, table, approvalId,
                 [status |-> APPROVAL_STATUS.DRAFT,
                  approved_by |-> NULL,
                  approved_at |-> NULL,
                  rejection_reason |-> NULL])
    IN  IF r.error # NULL
        THEN [rows |-> table, result |-> Result(FALSE, "cancel failed")]
        ELSE [rows |-> r.rows, result |-> Result(TRUE, "approval cancelled")]

\* isMonthEditable that also locks a month waiting for approval
isMonthEditable_pendingLocked(uid, table, key, err) ==
    LET approval == getApprovalStatus(uid, table, key, err) IN
    IF approval = NULL
    THEN TRUE
    ELSE approval[1].status \notin
            {APPROVAL_STATUS.APPROVED, APPROVAL_STATUS.PENDING}

\* isMonthEditable that refuses the edit when it got no approval
isMonthEditable_failClosed(uid, table, key, err) ==
    LET approval == getApprovalStatus(uid, table, key, err) IN
    IF approval = NULL
    THEN FALSE
    ELSE approval[1].status # APPROVAL_STATUS.APPROVED

isMonthEditable(uid, table, key, err) ==
    LET approval == getApprovalStatus(uid, table, key, err) IN
    IF approval = NULL
    THEN TRUE
    ELSE approval[1].status # APPROVAL_STATUS.APPROVED

----------------------------------------------------------------------------
(* Initial state: empty tables; the dashboard's globals as declared, with  *)
(* initApp about to call loadMonthData for the first month.                *)

FirstMonth == CHOOSE ym \in Months : \A o \in Months :
                  12 * ym.year + ym.month <= 12 * o.year + o.month

NoCall == [op |-> "none", actor |-> Owner, id |-> Key(Owner, FirstMonth),
           before |-> {}, result |-> Result(TRUE, "")]

NoWrite == [table |-> "none", year |-> FirstMonth.year,
            month |-> FirstMonth.month, approved |-> FALSE, applied |-> FALSE]

Idle(name) == [pc |-> "idle", completed |-> name]

\* Two browser sessions (tabs) of the same user
Sessions == {"s1", "s2"}

\* No call of a persistence function is in flight
NoCalls == [s \in Sessions |-> [pc |-> "idle"]]

\* No pure function is being evaluated
NoCalc == [fn |-> "none"]

\* No loadMonthData in this slot
NoLoad == [pc |-> "idle"]

\* loadMonthData up to its first await: getMonthlySettings is called with
\* the current month
FirstRead(ym) == [pc |-> "settings", ym |-> ym]

\* The store, the dashboard and the sessions after construction
InitProgram ==
    /\ approvals = {}
    /\ monthly_settings = {}
    /\ daily_records = {}
    /\ clock = 1
    /\ last = NoCall
    /\ lastWrite = NoWrite
    /\ currentYear = FirstMonth.year
    /\ currentMonth = FirstMonth.month
    /\ monthlySettings = NULL
    /\ dailyRecords = {}
    /\ isEditable = TRUE
    /\ task = [pc |-> "load_settings", origin |-> "initApp"]
    /\ calls = NoCalls
    /\ loads = [i \in 1..MaxLoads |->
                   IF i = 1 THEN FirstRead(FirstMonth) ELSE NoLoad]
    /\ readFor = [monthlySettings |-> NULL, dailyRecords |-> NULL,
                  isEditable |-> NULL]

Init ==
    /\ InitProgram
    /\ calc = NoCalc

----------------------------------------------------------------------------
(* Calls of the approval module, each one atomic step.  The caller's       *)
(* session is uid; the dashboard passes currentUser.id as userId and as    *)
(* approverId.  last logs the call: the rows with the id before it, and    *)
(* its result.                                                             *)

Call(op, uid, id, out) ==
    /\ approvals' = out.rows
    /\ last' = [op |-> op, actor |-> uid, id |-> id,
                before |-> RowsOf(approvals, id), result |-> out.result]
    /\ UNCHANGED <<monthly_settings, daily_records, clock, calls, calc,
                   lastWrite, dashVars, loads, readFor>>

RequestApproval(uid, ym) ==
    Call("requestApproval", uid, Key(uid, ym),
         requestApproval(uid, approvals, Key(uid, ym), clock))

Approve(uid, id) ==
    Call("approve", uid, id, approve(uid, approvals, id, uid, clock))

Reject(uid, id, reason) ==
    Call("reject", uid, id, reject(uid, approvals, id, uid, reason, clock))

CancelApproval(uid, id) ==
    Call("cancelApproval", uid, id,
         cancelApproval(uid, approvals, id, uid, clock))

\* Time passes.
Tick ==
    /\ clock < MaxClock
    /\ clock' = clock + 1
    /\ UNCHANGED <<storeVars, last, lastWrite, dashVars, calls, calc, loads,
                   readFor>>

\* The approval state machine alone: every user calls every function.
Next ==
    \/ \E ym \in Months : RequestApproval(Owner, ym)
    \/ \E uid \in Actors, id \in ApprovalIds : Approve(uid, id)
    \/ \E uid \in Actors, id \in ApprovalIds, reason \in Reasons :
          Reject(uid, id, reason)
    \/ \E uid \in Actors, id \in ApprovalIds : CancelApproval(uid, id)
    \/ Tick

Spec == Init /\ [][Next]_vars

----------------------------------------------------------------------------
(* The dashboard of user Owner (the main module printed in docs/sequence-  *)
(* diagram.md).  A handler runs up to its next await in one step; every    *)
(* statement it sends to the store is a step of its own, so that the calls *)
(* of other sessions interleave with it.  One handler is in flight at a    *)
(* time.                                                                   *)

Current == [year |-> currentYear, month |-> currentMonth]

IsApproved(approvalRows, userId, ym) ==
    \E a \in approvalRows :
        RowKey(a) = Key(userId, ym) /\ a.status = APPROVAL_STATUS.APPROVED

StartLoad(origin) == [pc |-> "load_settings", origin |-> origin]

\* loadMonthData: monthlySettings = await getMonthlySettings(...)
LoadSettings ==
    /\ task.pc = "load_settings"
    /\ monthlySettings' =
          getMonthlySettings(Owner, monthly_settings, Key(Owner, Current))
    /\ task' = [task EXCEPT !.pc = "load_records"]
    /\ UNCHANGED <<storeVars, clock, calls, calc, last, lastWrite,
                   currentYear, currentMonth, dailyRecords, isEditable, loads,
                   readFor>>

\* loadMonthData: dailyRecords = await getDailyRecords(...)
LoadRecords ==
    /\ task.pc = "load_records"
    /\ dailyRecords' = getDailyRecords(Owner, daily_records, Owner, Current)
    /\ task' = [task EXCEPT !.pc = "load_editable"]
    /\ UNCHANGED <<storeVars, clock, calls, calc, last, lastWrite,
                   currentYear, currentMonth, monthlySettings, isEditable,
                   loads, readFor>>

\* loadMonthData: isEditable = await isMonthEditable(...), then the UI update
LoadEditable ==
    /\ task.pc = "load_editable"
    /\ isEditable' = isMonthEditable(Owner, approvals, Key(Owner, Current), "none")
    /\ task' = Idle(task.origin)
    /\ UNCHANGED <<storeVars, clock, calls, calc, last, lastWrite,
                   currentYear, currentMonth, monthlySettings, dailyRecords,
                   loads, readFor>>

\* changeMonth that wraps the month and leaves the year
changeMonth_sameYear(year, month, delta) ==
    IF month + delta < 1 THEN [year |-> year, month |-> 12]
    ELSE IF month + delta > 12 THEN [year |-> year, month |-> 1]
    ELSE [year |-> year, month |-> month + delta]

changeMonth(year, month, delta) ==
    IF month + delta < 1 THEN [year |-> year - 1, month |-> 12]
    ELSE IF month + delta > 12 THEN [year |-> year + 1, month |-> 1]
    ELSE [year |-> year, month |-> month + delta]

\* getPreviousMonthSettings: the month whose settings it reads
PreviousMonth(year, month) ==
    LET prevMonth == month - 1 IN
    IF prevMonth < 1 THEN [year |-> year - 1, month |-> 12]
    ELSE [year |-> year, month |-> prevMonth]

\* changeMonth(delta), kept within the months the model covers
ChangeMonth(delta) ==
    /\ task.pc = "idle"
    /\ changeMonth(currentYear, currentMonth, delta) \in Months
    /\ currentYear' = changeMonth(currentYear, currentMonth, delta).year
    /\ currentMonth' = changeMonth(currentYear, currentMonth, delta).month
    /\ task' = StartLoad("changeMonth")
    /\ UNCHANGED <<storeVars, clock, calls, calc, last, lastWrite,
                   monthlySettings, dailyRecords, isEditable, loads, readFor>>

\* saveDailyRecordForm up to the call of saveDailyRecord
SaveDailyRecordForm(day, overtime) ==
    /\ task.pc = "idle"
    /\ task' = IF ~isEditable
               THEN Idle("saveDailyRecordForm: not editable")
               ELSE [pc |-> "daily_select", origin |-> "saveDailyRecordForm",
                     record |-> [user_id |-> Owner,
                                 work_date |-> [year |-> currentYear,
                                                month |-> currentMonth,
                                                day |-> day],
                                 overtime |-> overtime]]
    /\ UNCHANGED <<storeVars, clock, calls, calc, last, lastWrite,
                   currentYear, currentMonth, monthlySettings, dailyRecords,
                   isEditable, loads, readFor>>

\* saveDailyRecord: the select of the existing id
SaveDailyRecordSelect ==
    /\ task.pc = "daily_select"
    /\ task' = [pc |-> "daily_write", origin |-> task.origin,
                record |-> task.record,
                existing |-> DailyRecordsSelect(Owner, daily_records,
                                                DailyKey(task.record)).data]
    /\ UNCHANGED <<storeVars, clock, calls, calc, last, lastWrite,
                   currentYear, currentMonth, monthlySettings, dailyRecords,
                   isEditable, loads, readFor>>

\* saveDailyRecord: the update or insert, and saveDailyRecordForm's
\* handling of the result
SaveDailyRecordWrite ==
    /\ task.pc = "daily_write"
    /\ LET out == saveDailyRecordWrite(Owner, daily_records, approvals,
                                       task.existing, task.record)
           ym  == [year |-> task.record.work_date.year,
                   month |-> task.record.work_date.month]
       IN  /\ daily_records' = out.rows
           /\ lastWrite' = [table |-> "daily_records", year |-> ym.year,
                            month |-> ym.month,
                            approved |-> IsApproved(approvals, Owner, ym),
                            applied |-> out.applied]
           /\ task' = IF out.result.success
                      THEN StartLoad("saveDailyRecordForm")
                      ELSE Idle("saveDailyRecordForm: failed")
    /\ UNCHANGED <<approvals, monthly_settings, clock, calls, calc, last,
                   currentYear, currentMonth, monthlySettings, dailyRecords,
                   isEditable, loads, readFor>>

\* saveMonthlySettingsForm up to the call of saveMonthlySettings
SaveMonthlySettingsForm(hours) ==
    /\ task.pc = "idle"
    /\ task' = IF ~isEditable
               THEN Idle("saveMonthlySettingsForm: not editable")
               ELSE [pc |-> "settings_select",
                     origin |-> "saveMonthlySettingsForm",
                     settings |-> [user_id |-> Owner, year |-> currentYear,
                                   month |-> currentMonth,
                                   standard_hours |-> hours]]
    /\ UNCHANGED <<storeVars, clock, calls, calc, last, lastWrite,
                   currentYear, currentMonth, monthlySettings, dailyRecords,
                   isEditable, loads, readFor>>

\* saveMonthlySettings: the select of the existing id
SaveMonthlySettingsSelect ==
    /\ task.pc = "settings_select"
    /\ task' = [pc |-> "settings_write", origin |-> task.origin,
                settings |-> task.settings,
                existing |-> MonthlySettingsSelect(Owner, monthly_settings,
                                                   RowKey(task.settings)).data]
    /\ UNCHANGED <<storeVars, clock, calls, calc, last, lastWrite,
                   currentYear, currentMonth, monthlySettings, dailyRecords,
                   isEditable, loads, readFor>>

\* saveMonthlySettings: the update or insert, and saveMonthlySettingsForm's
\* handling of the result
SaveMonthlySettingsWrite ==
    /\ task.pc = "settings_write"
    /\ LET out == saveMonthlySettingsWrite(Owner, monthly_settings,
                                           task.existing, task.settings)
           ym  == [year |-> task.settings.year, month |-> task.settings.month]
       IN  /\ monthly_settings' = out.rows
           /\ lastWrite' = [table |-> "monthly_settings", year |-> ym.year,
                            month |-> ym.month,
                            approved |-> IsApproved(approvals, Owner, ym),
                            applied |-> out.applied]
           /\ monthlySettings' = IF out.result.success
                                 THEN Some(task.settings)
                                 ELSE monthlySettings
           /\ task' = IF out.result.success
                      THEN Idle("saveMonthlySettingsForm")
                      ELSE Idle("saveMonthlySettingsForm: failed")
    /\ UNCHANGED <<approvals, daily_records, clock, calls, calc, last,
                   currentYear, currentMonth, dailyRecords, isEditable, loads,
                   readFor>>

\* submitApprovalRequest: the user confirms; requestApproval is one step
SubmitApprovalRequest ==
    /\ task.pc = "idle"
    /\ IF ~isEditable
       THEN /\ task' = Idle("submitApprovalRequest: not editable")
            /\ UNCHANGED approvals
       ELSE LET out == requestApproval(Owner, approvals,
                                       Key(Owner, Current), clock)
            IN  /\ approvals' = out.rows
                /\ task' = IF out.result.success
                           THEN StartLoad("submitApprovalRequest")
                           ELSE Idle("submitApprovalRequest: failed")
    /\ UNCHANGED <<monthly_settings, daily_records, clock, calls, calc, last,
                   lastWrite, currentYear, currentMonth, monthlySettings,
                   dailyRecords, isEditable, loads, readFor>>

\* The buttons of the approval list (loadApprovalList), clicked by an
\* approver in another session.  A button is rendered from the status the
\* list last read and stays until the list is read again, so a click may
\* reach a row of any status.
ApproveButton(uid, id) ==
    /\ approvals' = approve(uid, approvals, id, uid, clock).rows
    /\ UNCHANGED <<monthly_settings, daily_records, clock, calls, calc, last,
                   lastWrite, dashVars, loads, readFor>>

RejectButton(uid, id, reason) ==
    /\ approvals' = reject(uid, approvals, id, uid, reason, clock).rows
    /\ UNCHANGED <<monthly_settings, daily_records, clock, calls, calc, last,
                   lastWrite, dashVars, loads, readFor>>

CancelApprovalButton(uid, id) ==
    /\ approvals' = cancelApproval(uid, approvals, id, uid, clock).rows
    /\ UNCHANGED <<monthly_settings, daily_records, clock, calls, calc, last,
                   lastWrite, dashVars, loads, readFor>>

Approvers == {uid \in Actors : is_approver(uid)}

\* The owner's dashboard, with the approvers deciding in their own sessions.
NextDash ==
    \/ LoadSettings
    \/ LoadRecords
    \/ LoadEditable
    \/ \E delta \in {-1, 1} : ChangeMonth(delta)
    \/ \E day \in Days, overtime \in OvertimeChoices :
          SaveDailyRecordForm(day, overtime)
    \/ SaveDailyRecordSelect
    \/ SaveDailyRecordWrite
    \/ \E hours \in StandardHoursChoices : SaveMonthlySettingsForm(hours)
    \/ SaveMonthlySettingsSelect
    \/ SaveMonthlySettingsWrite
    \/ SubmitApprovalRequest
    \/ \E uid \in Approvers, id \in ApprovalIds : ApproveButton(uid, id)
    \/ \E uid \in Approvers, id \in ApprovalIds, reason \in Reasons :
          RejectButton(uid, id, reason)
    \/ \E uid \in Approvers, id \in ApprovalIds : CancelApprovalButton(uid, id)

SpecDash == Init /\ [][NextDash]_vars

----------------------------------------------------------------------------
(* Concurrent calls of the persistence functions.  Each session of user    *)
(* Owner calls requestApproval, saveDailyRecord or saveMonthlySettings; a  *)
(* function runs up to its next await in one step and each statement it    *)
(* sends to the store is a step of its own.  A statement may fail: the     *)
(* client library then resolves to {data: null, error} ("network"), or the *)
(* await raises ("thrown").  stmts lists, for the call in flight, the      *)
(* outcome of every statement it has sent.                                 *)

StoreFaults == {"none", "network", "thrown"}

\* The month the sessions work on
CallMonth == FirstMonth

InFlight(call) == call.pc \in {"select", "write"}

\* The outcome of a statement as stmts records it
Outcome(fault, error) ==
    IF fault # "none" THEN fault ELSE IF error # NULL THEN error[1] ELSE "ok"

Begin(s, call) ==
    /\ ~InFlight(calls[s])
    /\ calls' = [t \in Sessions |->
                   IF t = s
                   THEN call @@ [pc |-> "select", stmts |-> <<>>,
                                 alone |-> \A u \in Sessions \ {s} :
                                              ~InFlight(calls[u])]
                   ELSE IF InFlight(calls[t])
                   THEN [calls[t] EXCEPT !.alone = FALSE]
                   ELSE calls[t]]
    /\ UNCHANGED <<storeVars, clock, calc, last, lastWrite, dashVars, loads,
                   readFor>>

\* The call of session s returns result
Return(s, outcome, result) ==
    [op |-> calls[s].op, pc |-> "done",
     stmts |-> Append(calls[s].stmts, outcome), result |-> result]

BeginRequestApproval(s) ==
    Begin(s, [op |-> "requestApproval", key |-> Key(Owner, CallMonth)])

\* requestApproval: the select of the existing row, the timestamp and the
\* check for an approved month.  The error of the select is not read: a
\* failed select leaves existing null.
RequestApprovalSelect(s, fault) ==
    /\ calls[s].pc = "select" /\ calls[s].op = "requestApproval"
    /\ LET sel == ApprovalsSelect(Owner, approvals, calls[s].key)
           existing == IF fault = "none" THEN sel.data ELSE NULL
           outcome == Outcome(fault, sel.error)
       IN  calls' = [calls EXCEPT ![s] =
              IF fault = "thrown"
              THEN Return(s, outcome, Result(FALSE, "error while requesting"))
              ELSE IF existing # NULL
                      /\ existing[1].status = APPROVAL_STATUS.APPROVED
              THEN Return(s, outcome, Result(FALSE, "already approved"))
              ELSE [op |-> "requestApproval", pc |-> "write",
                    key |-> calls[s].key, alone |-> calls[s].alone,
                    stmts |-> Append(calls[s].stmts, outcome),
                    existing |-> existing, now |-> clock]]
    /\ UNCHANGED <<storeVars, clock, calc, last, lastWrite, dashVars, loads,
                   readFor>>

\* requestApproval: the update or insert, and the result
RequestApprovalWrite(s, fault) ==
    /\ calls[s].pc = "write" /\ calls[s].op = "requestApproval"
    /\ LET c == calls[s]
           r == IF c.existing # NULL
                THEN ApprovalsUpdate(Owner, approvals, RowKey(c.existing[1]),
                         [status |-> APPROVAL_STATUS.PENDING,
                          requested_at |-> Some(c.now)])
                ELSE ApprovalsInsert(Owner, approvals,
                         NewApproval(c.key, APPROVAL_STATUS.PENDING, c.now))
           outcome == Outcome(fault, r.error)
       IN  /\ approvals' = IF fault = "none" THEN r.rows ELSE approvals
           /\ calls' = [calls EXCEPT ![s] =
                 IF fault = "thrown"
                 THEN Return(s, outcome, Result(FALSE, "error while requesting"))
                 ELSE IF outcome # "ok"
                 THEN Return(s, outcome, Result(FALSE, "request failed"))
                 ELSE Return(s, outcome, Result(TRUE, "request sent"))]
    /\ UNCHANGED <<monthly_settings, daily_records, clock, calc, last,
                   lastWrite, dashVars, loads, readFor>>

BeginSaveDailyRecord(s, day, overtime) ==
    Begin(s, [op |-> "saveDailyRecord",
              record |-> [user_id |-> Owner,
                          work_date |-> [year |-> CallMonth.year,
                                         month |-> CallMonth.month,
                                         day |-> day],
                          overtime |-> overtime]])

\* saveDailyRecord: the select of the existing id; its error is not read
SaveDailyRecordCallSelect(s, fault) ==
    /\ calls[s].pc = "select" /\ calls[s].op = "saveDailyRecord"
    /\ LET sel == DailyRecordsSelect(Owner, daily_records,
                                     DailyKey(calls[s].record))
           outcome == Outcome(fault, sel.error)
       IN  calls' = [calls EXCEPT ![s] =
              IF fault = "thrown"
              THEN Return(s, outcome, Result(FALSE, "save failed"))
              ELSE [op |-> "saveDailyRecord", pc |-> "write",
                    record |-> calls[s].record, alone |-> calls[s].alone,
                    stmts |-> Append(calls[s].stmts, outcome),
                    existing |-> IF fault = "none" THEN sel.data ELSE NULL]]
    /\ UNCHANGED <<storeVars, clock, calc, last, lastWrite, dashVars, loads,
                   readFor>>

\* saveDailyRecord: the update or insert, and the result
SaveDailyRecordCallWrite(s, fault) ==
    /\ calls[s].pc = "write" /\ calls[s].op = "saveDailyRecord"
    /\ LET c == calls[s]
           out == saveDailyRecordWrite(Owner, daily_records, approvals,
                                       c.existing, c.record)
           outcome == Outcome(fault, IF out.result.success THEN NULL
                                     ELSE Some(out.result.message))
       IN  /\ daily_records' = IF fault = "none" THEN out.rows
                               ELSE daily_records
           /\ calls' = [calls EXCEPT ![s] =
                 IF fault = "thrown"
                 THEN Return(s, outcome, Result(FALSE, "save failed"))
                 ELSE IF fault = "network"
                 THEN Return(s, outcome, Result(FALSE, "network"))
                 ELSE Return(s, outcome, out.result)]
    /\ UNCHANGED <<approvals, monthly_settings, clock, calc, last, lastWrite,
                   dashVars, loads, readFor>>

BeginSaveMonthlySettings(s, hours) ==
    Begin(s, [op |-> "saveMonthlySettings",
              settings |-> [user_id |-> Owner, year |-> CallMonth.year,
                            month |-> CallMonth.month,
                            standard_hours |-> hours]])

\* saveMonthlySettings: the select of the existing id; its error is not read
SaveMonthlySettingsCallSelect(s, fault) ==
    /\ calls[s].pc = "select" /\ calls[s].op = "saveMonthlySettings"
    /\ LET sel == MonthlySettingsSelect(Owner, monthly_settings,
                                        RowKey(calls[s].settings))
           outcome == Outcome(fault, sel.error)
       IN  calls' = [calls EXCEPT ![s] =
              IF fault = "thrown"
              THEN Return(s, outcome, Result(FALSE, "settings not saved"))
              ELSE [op |-> "saveMonthlySettings", pc |-> "write",
                    settings |-> calls[s].settings, alone |-> calls[s].alone,
                    stmts |-> Append(calls[s].stmts, outcome),
                    existing |-> IF fault = "none" THEN sel.data ELSE NULL]]
    /\ UNCHANGED <<storeVars, clock, calc, last, lastWrite, dashVars, loads,
                   readFor>>

\* saveMonthlySettings: the update or insert, and the result
SaveMonthlySettingsCallWrite(s, fault) ==
    /\ calls[s].pc = "write" /\ calls[s].op = "saveMonthlySettings"
    /\ LET c == calls[s]
           out == saveMonthlySettingsWrite(Owner, monthly_settings,
                                           c.existing, c.settings)
           outcome == Outcome(fault, IF out.result.success THEN NULL
                                     ELSE Some(out.result.message))
       IN  /\ monthly_settings' = IF fault = "none" THEN out.rows
                                  ELSE monthly_settings
           /\ calls' = [calls EXCEPT ![s] =
                 IF fault = "thrown"
                 THEN Return(s, outcome, Result(FALSE, "settings not saved"))
                 ELSE IF fault = "network"
                 THEN Return(s, outcome, Result(FALSE, "network"))
                 ELSE Return(s, outcome, out.result)]
    /\ UNCHANGED <<approvals, daily_records, clock, calc, last, lastWrite,
                   dashVars, loads, readFor>>

\* The sessions' calls, with the approvers deciding and time passing.
NextCalls ==
    \/ \E s \in Sessions : BeginRequestApproval(s)
    \/ \E s \in Sessions, fault \in StoreFaults : RequestApprovalSelect(s, fault)
    \/ \E s \in Sessions, fault \in StoreFaults : RequestApprovalWrite(s, fault)
    \/ \E s \in Sessions, day \in Days, overtime \in OvertimeChoices :
          BeginSaveDailyRecord(s, day, overtime)
    \/ \E s \in Sessions, fault \in StoreFaults :
          SaveDailyRecordCallSelect(s, fault)
    \/ \E s \in Sessions, fault \in StoreFaults :
          SaveDailyRecordCallWrite(s, fault)
    \/ \E s \in Sessions, hours \in StandardHoursChoices :
          BeginSaveMonthlySettings(s, hours)
    \/ \E s \in Sessions, fault \in StoreFaults :
          SaveMonthlySettingsCallSelect(s, fault)
    \/ \E s \in Sessions, fault \in StoreFaults :
          SaveMonthlySettingsCallWrite(s, fault)
    \/ \E uid \in Approvers : ApproveButton(uid, Key(Owner, CallMonth))
    \/ \E uid \in Approvers, reason \in Reasons :
          RejectButton(uid, Key(Owner, CallMonth), reason)
    \/ \E uid \in Approvers : CancelApprovalButton(uid, Key(Owner, CallMonth))
    \/ Tick

SpecCalls == Init /\ [][NextCalls]_vars

----------------------------------------------------------------------------
(* The dashboard with its handlers overlapping: a click is handled while   *)
(* the reads of an earlier loadMonthData are still pending, and the reads  *)
(* complete in any order.  Each await of loadMonthData is one step: the    *)
(* value read is assigned, and the next read is called with the month      *)
(* that is current at that moment.                                         *)

LoadsInFlight == {i \in 1..MaxLoads : loads[i].pc # "idle"}

FreeSlot == CHOOSE i \in 1..MaxLoads :
                /\ loads[i].pc = "idle"
                /\ \A j \in 1..(i - 1) : loads[j].pc # "idle"

\* changeMonth(delta), kept within the months the model covers
ClickChangeMonth(delta) ==
    /\ LoadsInFlight # 1..MaxLoads
    /\ LET to == changeMonth(currentYear, currentMonth, delta)
       IN  /\ to \in Months
           /\ currentYear' = to.year
           /\ currentMonth' = to.month
           /\ loads' = [loads EXCEPT ![FreeSlot] = FirstRead(to)]
    /\ UNCHANGED <<storeVars, clock, calls, calc, last, lastWrite,
                   monthlySettings, dailyRecords, isEditable, task, readFor>>

\* saveDailyRecordForm for a day of the current month: saveDailyRecord as
\* one step and, when it succeeded, loadMonthData
SaveThenReload(day, overtime) ==
    /\ LoadsInFlight # 1..MaxLoads
    /\ isEditable
    /\ LET record == [user_id |-> Owner,
                      work_date |-> [year |-> currentYear,
                                     month |-> currentMonth, day |-> day],
                      overtime |-> overtime]
           existing == DailyRecordsSelect(Owner, daily_records,
                                          DailyKey(record)).data
           out == saveDailyRecordWrite(Owner, daily_records, approvals,
                                       existing, record)
       IN  /\ daily_records' = out.rows
           /\ loads' = IF out.result.success
                       THEN [loads EXCEPT ![FreeSlot] = FirstRead(Current)]
                       ELSE loads
    /\ UNCHANGED <<approvals, monthly_settings, clock, calls, calc, last,
                   lastWrite, dashVars, readFor>>

\* monthlySettings = await getMonthlySettings(...), then getDailyRecords is
\* called
SettingsRead(i) ==
    /\ loads[i].pc = "settings"
    /\ monthlySettings' =
          getMonthlySettings(Owner, monthly_settings, Key(Owner, loads[i].ym))
    /\ readFor' = [readFor EXCEPT !.monthlySettings = Some(loads[i].ym)]
    /\ loads' = [loads EXCEPT ![i] = [pc |-> "records", ym |-> Current]]
    /\ UNCHANGED <<storeVars, clock, calls, calc, last, lastWrite, currentYear,
                   currentMonth, dailyRecords, isEditable, task>>

\* dailyRecords = await getDailyRecords(...), then isMonthEditable is called
RecordsRead(i) ==
    /\ loads[i].pc = "records"
    /\ dailyRecords' = getDailyRecords(Owner, daily_records, Owner, loads[i].ym)
    /\ readFor' = [readFor EXCEPT !.dailyRecords = Some(loads[i].ym)]
    /\ loads' = [loads EXCEPT ![i] = [pc |-> "editable", ym |-> Current]]
    /\ UNCHANGED <<storeVars, clock, calls, calc, last, lastWrite, currentYear,
                   currentMonth, monthlySettings, isEditable, task>>

\* isEditable = await isMonthEditable(...), then the UI update
EditableRead(i) ==
    /\ loads[i].pc = "editable"
    /\ isEditable' = isMonthEditable(Owner, approvals,
                                     Key(Owner, loads[i].ym), "none")
    /\ readFor' = [readFor EXCEPT !.isEditable = Some(loads[i].ym)]
    /\ loads' = [loads EXCEPT ![i] = NoLoad]
    /\ UNCHANGED <<storeVars, clock, calls, calc, last, lastWrite, currentYear,
                   currentMonth, monthlySettings, dailyRecords, task>>

NextLoads ==
    \/ \E delta \in {-1, 1} : ClickChangeMonth(delta)
    \/ \E day \in Days, overtime \in OvertimeChoices :
          SaveThenReload(day, overtime)
    \/ \E i \in 1..MaxLoads : SettingsRead(i)
    \/ \E i \in 1..MaxLoads : RecordsRead(i)
    \/ \E i \in 1..MaxLoads : EditableRead(i)

SpecLoads == Init /\ [][NextLoads]_vars

----------------------------------------------------------------------------
(* The calculations, each applied once to arguments drawn from the values  *)
(* the forms and the store can hold.                                       *)

\* A time that is missing: null, undefined, or the empty text of an input
Absent == {NULL, UNDEFINED, EmptyString}

ClockTexts == {HHMM(h, m) : h \in 0..23, m \in 0..59}

\* Times around the limits of the night hours (22:00 - 05:00) and of a day
NightTimes == {HHMM(h, m) : h \in 0..23, m \in {0, 1, 30, 59}}

ShiftTimes == {HHMM(h, m) : h \in {0, 8, 9, 12, 13, 18, 22, 23}, m \in {0, 30}}

\* What a break pair of a work pattern may hold
Break1Choices == {<<NULL, NULL>>, <<HHMM(12, 0), HHMM(13, 0)>>,
                  <<HHMM(12, 0), NULL>>, <<NULL, HHMM(13, 0)>>}

Break2Choices == {<<NULL, NULL>>, <<HHMM(15, 0), HHMM(15, 15)>>,
                  <<UNDEFINED, HHMM(15, 15)>>}

Break3Choices == {<<NULL, NULL>>, <<HHMM(17, 0), HHMM(17, 30)>>,
                  <<HHMM(17, 0), EmptyString>>}

PatternOf(start, end, b1, b2, b3) ==
    [start |-> start, end |-> end,
     break1_start |-> b1[1], break1_end |-> b1[2],
     break2_start |-> b2[1], break2_end |-> b2[2],
     break3_start |-> b3[1], break3_end |-> b3[2]]

\* Work patterns 09:00 - 18:00 with every combination of the break choices
BreakPatterns ==
    {PatternOf(HHMM(9, 0), HHMM(18, 0), b1, b2, b3) :
        b1 \in Break1Choices, b2 \in Break2Choices, b3 \in Break3Choices}

\* Work patterns as a monthly_settings row may store them
StoredPatterns ==
    {PatternOf(start, end, b1, b2, b3) :
        start \in {HHMM(10, 0), NULL, UNDEFINED, EmptyString},
        end \in {HHMM(19, 0), NULL},
        b1 \in Break1Choices, b2 \in Break2Choices, b3 \in Break3Choices}

\* The columns pattern{n}_* of a monthly_settings row holding pattern p
PatternColumns(n, p) ==
    [name \in {SettingsField[n][f] : f \in PatternFields} |->
        p[CHOOSE f \in PatternFields : SettingsField[n][f] = name]]

\* A monthly_settings row as the calculations read it
SettingsRow(p1, p2, p3, hours) ==
    PatternColumns(1, p1) @@ PatternColumns(2, p2) @@ PatternColumns(3, p3)
        @@ [standard_hours |-> hours]

\* Three patterns that differ in every column
ThreePatterns ==
    <<PatternOf(HHMM(8, 0), HHMM(17, 0), <<HHMM(11, 0), HHMM(12, 0)>>,
                <<HHMM(14, 0), HHMM(14, 10)>>, <<HHMM(16, 0), HHMM(16, 10)>>),
      PatternOf(HHMM(13, 0), HHMM(22, 0), <<HHMM(17, 0), HHMM(18, 0)>>,
                <<HHMM(20, 0), HHMM(20, 15)>>, <<HHMM(21, 0), HHMM(21, 5)>>),
      PatternOf(HHMM(22, 0), HHMM(23, 30), <<HHMM(22, 30), HHMM(23, 30)>>,
                <<HHMM(23, 0), HHMM(23, 20)>>, <<HHMM(23, 40), HHMM(23, 50)>>)>>

\* A row whose pattern n is p, the other patterns being those of ThreePatterns
SettingsWith(n, p, hours) ==
    SettingsRow(IF n = 1 THEN p ELSE ThreePatterns[1],
                IF n = 2 THEN p ELSE ThreePatterns[2],
                IF n = 3 THEN p ELSE ThreePatterns[3], hours)

\* work_type: the values the column's CHECK admits
WorkTypes == {"work", "remote", "late", "early-leave", "late-early",
              "legal-holiday", "extra-holiday"}

Input(fn, args) == [fn |-> fn, args |-> args, out |-> NULL]

\* The columns of a daily_records row that calculateMonthlySummary reads
DailyRecord(type, start, end, pattern, overtime, night) ==
    [work_type |-> type, start_time |-> start, end_time |-> end,
     work_pattern |-> pattern, overtime |-> overtime,
     night_overtime |-> night]

\* Rows of each work type kind, with and without times, patterns and
\* stored sums (a stored sum is whatever was saved: null, 0 or any integer)
SummaryRecords ==
    {DailyRecord(Some("work"), HHMM(9, 0), HHMM(18, 0), Some(1), Some(0),
                 Some(0)),
     DailyRecord(Some("late"), HHMM(13, 30), HHMM(22, 0), Some(2), Some(60),
                 Some(30)),
     DailyRecord(Some("remote"), HHMM(9, 0), NULL, Some(1), NULL, Some(5)),
     DailyRecord(Some("legal-holiday"), HHMM(9, 0), HHMM(12, 30), NULL,
                 Some(210), NULL),
     DailyRecord(Some("extra-holiday"), HHMM(22, 0), HHMM(23, 30), Some(3),
                 Some(45), Some(90)),
     DailyRecord(Some("extra-holiday"), NULL, NULL, Some(0), Some(-30), NULL),
     DailyRecord(NULL, HHMM(8, 0), HHMM(17, 0), Some(1), Some(15), Some(0)),
     DailyRecord(Some(""), EmptyString, HHMM(18, 0), Some(2), Some(7),
                 Some(-10))}

\* What a daily_records row of the export holds besides its date
CsvContents ==
    {[work_type |-> Some("work"), start_time |-> HHMM(9, 0),
      end_time |-> HHMM(18, 0), late_time |-> NULL,
      early_leave_time |-> Some(0), overtime |-> Some(60),
      night_overtime |-> Some(0), leave_type |-> NULL,
      note |-> Some(<<"a", ",", "b">>)],
     [work_type |-> Some("legal-holiday"), start_time |-> HHMM(10, 30),
      end_time |-> NULL, late_time |-> Some(30), early_leave_time |-> NULL,
      overtime |-> Some(-15), night_overtime |-> Some(5),
      leave_type |-> Some("paid"),
      note |-> Some(<<"\"", "x", "\"", "\n", ",", "\"">>)],
     [work_type |-> Some("late-early"), start_time |-> EmptyString,
      end_time |-> HHMM(17, 0), late_time |-> Some(0),
      early_leave_time |-> Some(45), overtime |-> NULL,
      night_overtime |-> NULL, leave_type |-> Some("absent"),
      note |-> Some(<<"\n">>)],
     [work_type |-> NULL, start_time |-> NULL, end_time |-> NULL,
      late_time |-> NULL, early_leave_time |-> NULL, overtime |-> NULL,
      night_overtime |-> NULL, leave_type |-> Some("special"),
      note |-> NULL]}

\* The days of the month that may have a record
CsvDays == <<1, 2, 28>>

\* Months of 28, 29, 30 and 31 days
CsvMonths ==
    {[year |-> 2025, month |-> 2], [year |-> 2024, month |-> 2],
     [year |-> 2025, month |-> 4], [year |-> 2024, month |-> 12]}

RECURSIVE RecordsFrom(_, _, _)
\* The rows of month ym chosen by pick (a content or NULL for each of
\* CsvDays), in the order of work_date as getDailyRecords returns them
RecordsFrom(ym, pick, i) ==
    IF i > Len(CsvDays) THEN <<>>
    ELSE (IF pick[i] = NULL THEN <<>>
          ELSE <<[work_date |-> [year |-> ym.year, month |-> ym.month,
                                 day |-> CsvDays[i]]] @@ pick[i][1]>>)
            \o RecordsFrom(ym, pick, i + 1)

\* The approvals table with no row for the owner's month or one row of
\* each status
StatusTables ==
    {{}} \cup {{NewApproval(Key(Owner, FirstMonth), status, 1)} :
                  status \in {APPROVAL_STATUS.DRAFT, APPROVAL_STATUS.PENDING,
                              APPROVAL_STATUS.APPROVED,
                              APPROVAL_STATUS.REJECTED}}

\* The lists of at most MaxRecords records
RecordLists == UNION {[1..n -> SummaryRecords] : n \in 0..MaxRecords}

InitCalc ==
    /\ InitProgram
    /\ \/ calc \in {Input("timeToMinutes", [timeStr |-> t]) :
                       t \in ClockTexts \cup Absent}
       \/ calc \in {Input("calculateBreakTime", [pattern |-> p]) :
                       p \in BreakPatterns}
       \/ calc \in {Input("calculateWorkTime",
                          [startTime |-> a, endTime |-> b, pattern |-> p]) :
                       a \in ShiftTimes \cup Absent,
                       b \in ShiftTimes \cup Absent, p \in BreakPatterns}
       \/ calc \in {Input("calculateOvertime",
                          [workTime |-> w, standardHours |-> h,
                           workType |-> t]) :
                       w \in {-600, -30, 0, 1, 419, 420, 421, 479, 480, 481,
                              540, 1439},
                       h \in {0, 7, 8}, t \in WorkTypes}
       \/ calc \in {Input("calculateNightOvertime",
                          [startTime |-> a, endTime |-> b,
                           standardHours |-> 8]) :
                       a \in NightTimes \cup Absent,
                       b \in NightTimes \cup Absent}
       \/ calc \in {Input("calculateLateTime",
                          [actualStart |-> a, scheduledStart |-> b]) :
                       a \in ShiftTimes \cup Absent,
                       b \in ShiftTimes \cup Absent}
       \/ calc \in {Input("calculateEarlyLeaveTime",
                          [actualEnd |-> a, scheduledEnd |-> b]) :
                       a \in ShiftTimes \cup Absent,
                       b \in ShiftTimes \cup Absent}
       \/ calc \in {Input("calculateMonthlySummary",
                          [records |-> l, settings |-> st]) :
                       l \in RecordLists,
                       st \in {NULL, Some(SettingsRow(ThreePatterns[1],
                                  ThreePatterns[2], ThreePatterns[3], 8))}}
       \/ calc \in {Input("isMonthEditable", [table |-> t, err |-> e]) :
                       t \in StatusTables, e \in StoreFaults}
       \/ calc \in {Input("changeMonth",
                          [currentYear |-> y, currentMonth |-> m,
                           steps |-> 0]) :
                       y \in {2024, 2025}, m \in 1..12}
       \/ calc \in {Input("generateCSV",
                          [records |-> RecordsFrom(ym, pick, 1),
                           settings |-> NULL, year |-> ym.year,
                           month |-> ym.month]) :
                       ym \in CsvMonths,
                       pick \in [1..Len(CsvDays) ->
                                    {NULL} \cup {Some(c) : c \in CsvContents}]}
       \/ calc \in {Input("getPatternFromSettings",
                          [settings |-> Some(SettingsWith(n, p, 8)),
                           patternNumber |-> n]) :
                       n \in 1..3, p \in StoredPatterns}
       \/ calc \in {Input("getPatternFromSettings",
                          [settings |-> NULL, patternNumber |-> n]) :
                       n \in 1..3}
       \/ calc \in {Input("saveDailyRecordForm",
                          [startTime |-> a, endTime |-> b, workType |-> t,
                           patternNum |-> n,
                           monthlySettings |-> Some(SettingsWith(n, p, h))]) :
                       a \in ShiftTimes, b \in ShiftTimes, t \in WorkTypes,
                       n \in 1..3, h \in {0, 8},
                       p \in {DefaultPattern, ThreePatterns[1]}}

\* The value fn returned
Returned(value) ==
    /\ calc.out = NULL
    /\ calc' = [calc EXCEPT !.out = Some(value)]
    /\ UNCHANGED <<storeVars, clock, calls, last, lastWrite, dashVars, loads,
                   readFor>>

TimeToMinutes ==
    /\ calc.fn = "timeToMinutes"
    /\ Returned(timeToMinutes(calc.args.timeStr))

CalculateBreakTime ==
    /\ calc.fn = "calculateBreakTime"
    /\ Returned(calculateBreakTime(calc.args.pattern))

CalculateWorkTime ==
    /\ calc.fn = "calculateWorkTime"
    /\ Returned(calculateWorkTime(calc.args.startTime, calc.args.endTime,
                                  calc.args.pattern))

CalculateOvertime ==
    /\ calc.fn = "calculateOvertime"
    /\ Returned(calculateOvertime(calc.args.workTime, calc.args.standardHours,
                                  calc.args.workType))

CalculateNightOvertime ==
    /\ calc.fn = "calculateNightOvertime"
    /\ Returned(calculateNightOvertime(calc.args.startTime, calc.args.endTime,
                                       calc.args.standardHours))

CalculateLateTime ==
    /\ calc.fn = "calculateLateTime"
    /\ Returned(calculateLateTime(calc.args.actualStart,
                                  calc.args.scheduledStart))

CalculateEarlyLeaveTime ==
    /\ calc.fn = "calculateEarlyLeaveTime"
    /\ Returned(calculateEarlyLeaveTime(calc.args.actualEnd,
                                        calc.args.scheduledEnd))

CalculateMonthlySummary ==
    /\ calc.fn = "calculateMonthlySummary"
    /\ Returned(calculateMonthlySummary(calc.args.records,
                                        calc.args.settings))

IsMonthEditable ==
    /\ calc.fn = "isMonthEditable"
    /\ Returned(isMonthEditable(Owner, calc.args.table,
                                Key(Owner, FirstMonth), calc.args.err))

\* One click on the previous or the next month button, from the month the
\* earlier clicks led to; out is what the click was and the month
\* getPreviousMonthSettings would read from the new month
ChangeMonthCall(delta) ==
    /\ calc.fn = "changeMonth"
    /\ calc.args.steps < MaxSteps
    /\ LET to == changeMonth(calc.args.currentYear, calc.args.currentMonth,
                             delta)
       IN  calc' = [fn |-> "changeMonth",
                    args |-> [currentYear |-> to.year,
                              currentMonth |-> to.month,
                              steps |-> calc.args.steps + 1],
                    out |-> Some([delta |-> delta,
                                  previous |-> PreviousMonth(to.year,
                                                             to.month)])]
    /\ UNCHANGED <<storeVars, clock, calls, last, lastWrite, dashVars, loads,
                   readFor>>

GenerateCSV ==
    /\ calc.fn = "generateCSV"
    /\ Returned(generateCSV(calc.args.records, calc.args.settings,
                            calc.args.year, calc.args.month))

GetPatternFromSettings ==
    /\ calc.fn = "getPatternFromSettings"
    /\ Returned(getPatternFromSettings(calc.args.settings,
                                       calc.args.patternNumber))

\* The derived fields of the record saveDailyRecordForm builds, for a form
\* opened on a day without a record (late-time, early-leave-time and
\* overtime start at 0) whose times were then entered: the three fields are
\* what calculateTimesFromInput wrote, night_overtime is computed on save.
DeriveRecordTimes ==
    /\ calc.fn = "saveDailyRecordForm"
    /\ LET a == calc.args
           form == calculateTimesFromInput(a.startTime, a.endTime, a.workType,
                                           a.patternNum, a.monthlySettings)
           standardHours ==
               IF a.monthlySettings = NULL
                  \/ a.monthlySettings[1].standard_hours = 0
               THEN 8 ELSE a.monthlySettings[1].standard_hours
           nightOvertime ==
               IF ~Falsy(a.startTime) /\ ~Falsy(a.endTime)
               THEN calculateNightOvertime(a.startTime, a.endTime,
                                           standardHours)
               ELSE 0
       IN  Returned([late_time |-> IF form = NULL THEN 0
                                   ELSE form[1].late_time,
                     early_leave_time |-> IF form = NULL THEN 0
                                          ELSE form[1].early_leave_time,
                     overtime |-> IF form = NULL THEN 0
                                  ELSE form[1].overtime,
                     night_overtime |-> nightOvertime])

NextCalc ==
    \/ TimeToMinutes
    \/ CalculateBreakTime
    \/ CalculateWorkTime
    \/ CalculateOvertime
    \/ CalculateNightOvertime
    \/ CalculateLateTime
    \/ CalculateEarlyLeaveTime
    \/ CalculateMonthlySummary
    \/ \E delta \in {-1, 1} : ChangeMonthCall(delta)
    \/ GenerateCSV
    \/ IsMonthEditable
    \/ GetPatternFromSettings
    \/ DeriveRecordTimes

SpecCalc == InitCalc /\ [][NextCalc]_vars

----------------------------------------------------------------------------
(* The approval state machine *)

StatusOf(rows) == IF rows = {} THEN "none" ELSE (CHOOSE r \in rows : TRUE).status

TheRow(rows) == CHOOSE r \in rows : TRUE

\* The rows of a table other than the one with this key
Others(table, key) == {r \in table : RowKey(r) # key}

\* No user without the approver flag is recorded as having decided.
DecidedByApprovers(rows) ==
    \A r \in rows : r.approved_by = NULL \/ is_approver(r.approved_by[1])

AllowedTransitions ==
    {<<"none", "requestApproval", "pending">>,
     <<"draft", "requestApproval", "pending">>,
     <<"rejected", "requestApproval", "pending">>,
     <<"pending", "approve", "approved">>,
     <<"pending", "reject", "rejected">>,
     <<"approved", "cancelApproval", "draft">>}

\* C1: every change of an Approval's status made by a call of the approval
\* module is a transition of the table: request from none/draft/rejected to
\* pending, approve from pending, reject from pending, cancel from approved.
\* (Stated of the calls an approver makes on rows only approvers decided.)
C1_OnlyTableTransitions ==
    (last.op # "none" /\ is_approver(last.actor)
       /\ DecidedByApprovers(last.before)
       /\ StatusOf(last.before) # StatusOf(RowsOf(approvals, last.id)))
    => <<StatusOf(last.before), last.op, StatusOf(RowsOf(approvals, last.id))>>
          \in AllowedTransitions

\* C2: requestApproval on a month whose Approval is absent, draft, pending
\* or rejected returns success and leaves that month's Approval pending with
\* requested_at the time of the call; no other row changes.
C2_RequestMakesPending ==
    [][\A ym \in Months :
         LET key == Key(Owner, ym) IN
         (RequestApproval(Owner, ym)
            /\ StatusOf(RowsOf(approvals, key))
                  \in {"none", "draft", "pending", "rejected"})
         => /\ last'.result.success
            /\ Cardinality(RowsOf(approvals', key)) = 1
            /\ TheRow(RowsOf(approvals', key)).status = "pending"
            /\ TheRow(RowsOf(approvals', key)).requested_at = Some(clock)
            /\ Others(approvals', key) = Others(approvals, key)]_vars

\* A request made from rejected at a later time than the earlier request.
C2_Witness ==
    /\ last.op = "requestApproval"
    /\ last.result.success
    /\ StatusOf(last.before) = "rejected"
    /\ StatusOf(RowsOf(approvals, last.id)) = "pending"
    /\ TheRow(last.before).requested_at
          # TheRow(RowsOf(approvals, last.id)).requested_at

\* C3: requestApproval on an approved month returns success = FALSE and
\* changes no row of the approvals table.
C3_RequestOnApprovedFails ==
    [][\A ym \in Months :
         (RequestApproval(Owner, ym)
            /\ StatusOf(RowsOf(approvals, Key(Owner, ym))) = "approved")
         => /\ ~last'.result.success
            /\ last'.result.message # ""
            /\ approvals' = approvals]_vars

\* A request was made on an approved month, at a later time than approval.
C3_Witness ==
    /\ last.op = "requestApproval"
    /\ StatusOf(last.before) = "approved"
    /\ TheRow(last.before).approved_at # Some(clock)
    /\ ~last.result.success

\* C4: reject or approve on an Approval whose status is not pending returns
\* success = FALSE with a message and leaves the row unchanged.
\* (Stated of the calls an approver makes on an existing row that only
\* approvers decided.)
C4_NonPendingIsRefused ==
    (last.op \in {"approve", "reject"} /\ is_approver(last.actor)
       /\ DecidedByApprovers(last.before)
       /\ last.before # {} /\ StatusOf(last.before) # "pending")
    => /\ ~last.result.success
       /\ last.result.message # ""
       /\ RowsOf(approvals, last.id) = last.before

\* C5: approve, reject and cancelApproval called by a user without the
\* approver flag leave the Approval unchanged.
C5_OnlyApproversDecide ==
    (last.op \in {"approve", "reject", "cancelApproval"}
       /\ ~is_approver(last.actor))
    => RowsOf(approvals, last.id) = last.before

\* C6: cancelApproval by an approver on an approved Approval returns
\* success and leaves it draft with approved_by, approved_at and
\* rejection_reason NULL; the month is editable afterwards.
C6_CancelReturnsToDraft ==
    [][\A uid \in Actors, id \in ApprovalIds :
         (CancelApproval(uid, id) /\ is_approver(uid)
            /\ StatusOf(RowsOf(approvals, id)) = "approved")
         => /\ last'.result.success
            /\ Cardinality(RowsOf(approvals', id)) = 1
            /\ LET row == TheRow(RowsOf(approvals', id)) IN
                 /\ row.status = "draft"
                 /\ row.approved_by = NULL
                 /\ row.approved_at = NULL
                 /\ row.rejection_reason = NULL
            /\ isMonthEditable(id.user_id, approvals', id, "none")]_vars

\* An approver cancelled an approved Approval that carried approver
\* metadata and a rejection reason.
C6_Witness ==
    /\ last.op = "cancelApproval"
    /\ is_approver(last.actor)
    /\ StatusOf(last.before) = "approved"
    /\ TheRow(last.before).approved_by # NULL
    /\ TheRow(last.before).rejection_reason # NULL
    /\ last.result.success

\* C7: for every month, isMonthEditable is FALSE exactly when the month has
\* an Approval row whose status is approved (TRUE for no row, draft, pending
\* and rejected).
C7_EditableIffNotApproved ==
    \A ym \in Months :
        LET key == Key(Owner, ym) IN
        (isMonthEditable(Owner, approvals, key, "none") = FALSE)
           <=> (\E r \in approvals : RowKey(r) = key /\ r.status = "approved")

\* One month is approved while the other has a row that is not.
C7_Witness ==
    \E r1 \in approvals, r2 \in approvals :
        /\ r1.status = "approved"
        /\ r2.status \in {"pending", "rejected", "draft"}
        /\ ~isMonthEditable(Owner, approvals, RowKey(r1), "none")
        /\ isMonthEditable(Owner, approvals, RowKey(r2), "none")

----------------------------------------------------------------------------
(* The editability gate *)

MonthOf(record) == [year |-> record.work_date.year,
                    month |-> record.work_date.month]

\* C8: however saveDailyRecordForm / saveDailyRecord interleave with an
\* approver's approve, no row of daily_records is inserted or updated while
\* the Approval of the row's month is approved in the store.
C8_NoDailyWriteWhileApproved ==
    /\ [](lastWrite.table = "daily_records" /\ lastWrite.approved
             => ~lastWrite.applied)
    /\ [][\A r \in (daily_records' \ daily_records)
                      \cup (daily_records \ daily_records') :
             ~IsApproved(approvals, r.user_id, MonthOf(r))]_vars

\* A save passed the dashboard's gate on the cached flag, the month was
\* approved before its write reached the store, and the store refused it.
C8_Witness ==
    /\ lastWrite.table = "daily_records"
    /\ lastWrite.approved
    /\ ~lastWrite.applied
    /\ isEditable
    /\ IsApproved(approvals, Owner, [year |-> lastWrite.year,
                                     month |-> lastWrite.month])

\* C9: saveMonthlySettingsForm writes no monthly_settings row for a month
\* whose Approval is approved in the store at the time of the write.
C9_NoSettingsWriteWhileApproved ==
    (lastWrite.table = "monthly_settings" /\ lastWrite.applied)
    => ~lastWrite.approved

\* C10: once submitApprovalRequest has succeeded and the loadMonthData it
\* starts has completed, the cached isEditable is FALSE.
C10_LockedAfterRequest ==
    (task.pc = "idle" /\ task.completed = "submitApprovalRequest")
    => ~isEditable

----------------------------------------------------------------------------
(* Concurrent calls and store failures *)

\* C11: however the selects and the inserts/updates of concurrent
\* requestApproval calls for one (user, year, month) interleave, the store
\* holds at most one Approval row for the triple, and a call that returns
\* success leaves that row pending with the requested_at it wrote.
C11_OneRowAndReflected ==
    /\ [](\A id \in ApprovalIds : Cardinality(RowsOf(approvals, id)) <= 1)
    /\ [][\A s \in Sessions :
            (calls[s].pc = "write" /\ calls[s].op = "requestApproval"
               /\ calls'[s].pc = "done" /\ calls'[s].result.success)
            => \E r \in approvals' :
                  /\ RowKey(r) = calls[s].key
                  /\ r.status = APPROVAL_STATUS.PENDING
                  /\ r.requested_at = Some(calls[s].now)]_vars

\* Both sessions found no row and inserted: one insert was stored, the
\* other was refused by the UNIQUE constraint and its call returned failure.
C11_Witness ==
    /\ calls["s1"].pc = "done" /\ calls["s1"].op = "requestApproval"
    /\ calls["s2"].pc = "done" /\ calls["s2"].op = "requestApproval"
    /\ calls["s1"].stmts = <<"PGRST116", "ok">>
    /\ calls["s2"].stmts = <<"PGRST116", "23505">>
    /\ calls["s1"].result.success /\ ~calls["s2"].result.success
    /\ Cardinality(RowsOf(approvals, Key(Owner, CallMonth))) = 1

\* C12: the store holds at most one DailyRecord per (user_id, work_date),
\* and when a saveDailyRecord call that ran with no other call in flight
\* returns success, the stored record of that key is the record passed in.
C12_UpsertByNaturalKey ==
    /\ [](\A r1 \in daily_records, r2 \in daily_records :
             DailyKey(r1) = DailyKey(r2) => r1 = r2)
    /\ [][\A s \in Sessions :
            (calls[s].pc = "write" /\ calls[s].op = "saveDailyRecord"
               /\ calls[s].alone
               /\ calls'[s].pc = "done" /\ calls'[s].result.success)
            => calls[s].record \in daily_records']_vars

\* The statements of a call that reported a failure other than "no row"
Failures(stmts) ==
    {i \in 1..Len(stmts) : stmts[i] \notin {"ok", "PGRST116"}}

\* C13: a call of requestApproval, saveDailyRecord or saveMonthlySettings in
\* which a store statement (the select or the insert/update) reported a
\* failure other than "no row" returns success = FALSE with a message, and
\* the failed statement is the last one the call sent.
C13_FailurePropagates ==
    \A s \in Sessions :
        (calls[s].pc = "done" /\ Failures(calls[s].stmts) # {})
        => /\ ~calls[s].result.success
           /\ calls[s].result.message # ""
           /\ Failures(calls[s].stmts) = {Len(calls[s].stmts)}

----------------------------------------------------------------------------
(* The calculations *)

\* The hour and minute a clock text was written from, found by search
ClockOf(text, hours, minutes) ==
    CHOOSE hm \in hours \X minutes : HHMM(hm[1], hm[2]) = text

\* Minutes since midnight of a clock text of the given hours and minutes
MinutesOf(text, hours, minutes) ==
    LET hm == ClockOf(text, hours, minutes) IN 60 * hm[1] + hm[2]

Floor0(n) == IF n < 0 THEN 0 ELSE n

Least(a, b) == IF a < b THEN a ELSE b

Greatest(a, b) == IF a > b THEN a ELSE b

\* C14: for every start and end time in 00:00..23:59, calculateNightOvertime
\* is max(0, min(end,1440) - max(start,1320)) + max(0, min(end,300) - start);
\* it is 0 when a time is absent, 0 for a shift inside 09:00-18:00 and 60
\* for 20:00-23:00.
C14_NightOvertimeClosedForm ==
    (calc.fn = "calculateNightOvertime" /\ calc.out # NULL)
    => IF calc.args.startTime \in Absent \/ calc.args.endTime \in Absent
       THEN calc.out[1] = 0
       ELSE LET start == MinutesOf(calc.args.startTime, 0..23, {0, 1, 30, 59})
                end   == MinutesOf(calc.args.endTime, 0..23, {0, 1, 30, 59})
            IN  /\ calc.out[1] =
                      Floor0(Least(end, 1440) - Greatest(start, 1320))
                        + Floor0(Least(end, 300) - start)
                /\ (540 <= start /\ start <= end /\ end <= 1080)
                      => calc.out[1] = 0
                /\ (start = 1200 /\ end = 1380) => calc.out[1] = 60

\* A shift from 04:30 to 23:01 counts 30 minutes before 05:00 and 61 after
\* 22:00.
C14_Witness ==
    /\ calc.fn = "calculateNightOvertime"
    /\ calc.args.startTime = HHMM(4, 30)
    /\ calc.args.endTime = HHMM(23, 1)
    /\ calc.out = Some(91)

\* C15: the late_time, early_leave_time, overtime and night_overtime derived
\* for a DailyRecord are never negative.
C15_DerivedTimesNotNegative ==
    (calc.fn = "saveDailyRecordForm" /\ calc.out # NULL)
    => /\ calc.out[1].late_time >= 0
       /\ calc.out[1].early_leave_time >= 0
       /\ calc.out[1].overtime >= 0
       /\ calc.out[1].night_overtime >= 0

\* C16: calculateOvertime on a holiday work type returns total = worked,
\* normal = 0 and the whole of worked in the part of that holiday type; on
\* every other work type total = normal = max(0, worked - standardHours*60)
\* and both holiday parts are 0; night is 0 in every case.
C16_OvertimeRouting ==
    (calc.fn = "calculateOvertime" /\ calc.out # NULL)
    => LET a == calc.args
           o == calc.out[1]
       IN  /\ o.night = 0
           /\ a.workType = "legal-holiday"
                 => /\ o.total = a.workTime /\ o.normal = 0
                    /\ o.legalHoliday = a.workTime /\ o.extraHoliday = 0
           /\ a.workType = "extra-holiday"
                 => /\ o.total = a.workTime /\ o.normal = 0
                    /\ o.extraHoliday = a.workTime /\ o.legalHoliday = 0
           /\ a.workType \notin {"legal-holiday", "extra-holiday"}
                 => /\ o.total = Floor0(a.workTime - a.standardHours * 60)
                    /\ o.normal = o.total
                    /\ o.legalHoliday = 0 /\ o.extraHoliday = 0

\* 481 minutes worked on a legal holiday are all legal-holiday overtime.
C16_Witness ==
    /\ calc.fn = "calculateOvertime"
    /\ calc.args.workType = "legal-holiday"
    /\ calc.args.workTime = 481
    /\ calc.args.standardHours = 8
    /\ calc.out # NULL
    /\ calc.out[1].legalHoliday = 481
    /\ calc.out[1].normal = 0

\* C17: calculateWorkTime is 0 when a clock time is absent and otherwise
\* toMinutes(end) - toMinutes(start) - calculateBreakTime(pattern), not
\* clamped: negative when the breaks exceed the span.
C17_WorkTimeNotClamped ==
    (calc.fn = "calculateWorkTime" /\ calc.out # NULL)
    => LET a == calc.args IN
       IF a.startTime \in Absent \/ a.endTime \in Absent
       THEN calc.out[1] = 0
       ELSE calc.out[1] =
               MinutesOf(a.endTime, 0..23, {0, 30})
                 - MinutesOf(a.startTime, 0..23, {0, 30})
                 - calculateBreakTime(a.pattern)

\* A shift 12:00-12:30 under a pattern with a one hour break: -30.
C17_Witness ==
    /\ calc.fn = "calculateWorkTime"
    /\ calc.args.startTime = HHMM(12, 0)
    /\ calc.args.endTime = HHMM(12, 30)
    /\ calculateBreakTime(calc.args.pattern) = 60
    /\ calc.out = Some(-30)

\* The length of break pair (s, e) of a pattern: 0 unless both are present
BreakLength(pattern, s, e) ==
    IF pattern[s] \in Absent \/ pattern[e] \in Absent THEN 0
    ELSE MinutesOf(pattern[e], 0..23, {0, 15, 30})
           - MinutesOf(pattern[s], 0..23, {0, 15, 30})

\* C18: calculateBreakTime is the sum of end - start over the break pairs
\* with both ends present; a pair with one end present counts 0, and a
\* pattern without a complete pair yields 0.
C18_BreakTimeSum ==
    (calc.fn = "calculateBreakTime" /\ calc.out # NULL)
    => calc.out[1] =
          BreakLength(calc.args.pattern, "break1_start", "break1_end")
            + BreakLength(calc.args.pattern, "break2_start", "break2_end")
            + BreakLength(calc.args.pattern, "break3_start", "break3_end")

\* Break 1 has only its start, break 2 is complete (15 minutes), break 3
\* has only its start: 15.
C18_Witness ==
    /\ calc.fn = "calculateBreakTime"
    /\ calc.args.pattern.break1_start = HHMM(12, 0)
    /\ calc.args.pattern.break1_end = NULL
    /\ calc.args.pattern.break2_start = HHMM(15, 0)
    /\ calc.args.pattern.break2_end = HHMM(15, 15)
    /\ calc.args.pattern.break3_start = HHMM(17, 0)
    /\ calc.args.pattern.break3_end = EmptyString
    /\ calc.out = Some(15)

\* C19: getPatternFromSettings(settings, n): without settings, 09:00-18:00
\* with break 1 12:00-13:00 and no breaks 2 and 3; with settings, start and
\* end are the pattern{n} values (09:00 / 18:00 in place of a missing one)
\* and every break field is the stored pattern{n} value.
C19_PatternFromSettings ==
    (calc.fn = "getPatternFromSettings" /\ calc.out # NULL)
    => LET n == calc.args.patternNumber
           o == calc.out[1]
       IN  IF calc.args.settings = NULL
           THEN /\ o.start = HHMM(9, 0) /\ o.end = HHMM(18, 0)
                /\ o.break1_start = HHMM(12, 0) /\ o.break1_end = HHMM(13, 0)
                /\ o.break2_start \in Absent /\ o.break2_end \in Absent
                /\ o.break3_start \in Absent /\ o.break3_end \in Absent
           ELSE LET row == calc.args.settings[1] IN
                /\ o.start = IF row[SettingsField[n].start] \in Absent
                             THEN HHMM(9, 0) ELSE row[SettingsField[n].start]
                /\ o.end = IF row[SettingsField[n].end] \in Absent
                           THEN HHMM(18, 0) ELSE row[SettingsField[n].end]
                /\ \A f \in PatternFields \ {"start", "end"} :
                      o[f] = row[SettingsField[n][f]]

\* Pattern 2 is read from a row whose pattern 2 has no start and no first
\* break: the start is 09:00, the end the stored 19:00, break 1 stays null.
C19_Witness ==
    /\ calc.fn = "getPatternFromSettings"
    /\ calc.args.patternNumber = 2
    /\ calc.args.settings # NULL
    /\ calc.args.settings[1].pattern2_start = NULL
    /\ calc.args.settings[1].pattern2_break1_start = NULL
    /\ calc.args.settings[1].pattern1_break1_start = HHMM(11, 0)
    /\ calc.out # NULL
    /\ calc.out[1].start = HHMM(9, 0)
    /\ calc.out[1].end = HHMM(19, 0)
    /\ calc.out[1].break1_start = NULL

\* C20: timeToMinutes returns hours*60 + minutes for every "HH:MM" with HH
\* in 00..23 and MM in 00..59, and 0 for null, undefined and "".
C20_TimeToMinutes ==
    (calc.fn = "timeToMinutes" /\ calc.out # NULL)
    => IF calc.args.timeStr \in Absent
       THEN calc.out[1] = 0
       ELSE calc.out[1] = MinutesOf(calc.args.timeStr, 0..23, 0..59)

\* "23:59" is 1439.
C20_Witness ==
    /\ calc.fn = "timeToMinutes"
    /\ calc.args.timeStr = HHMM(23, 59)
    /\ calc.out = Some(1439)

\* C21: calculateLateTime is max(0, actual - scheduled) and
\* calculateEarlyLeaveTime is max(0, scheduled - actual), in minutes; each
\* is 0 when one of its arguments is absent.
C21_LateAndEarlyLeave ==
    /\ (calc.fn = "calculateLateTime" /\ calc.out # NULL)
       => IF calc.args.actualStart \in Absent
             \/ calc.args.scheduledStart \in Absent
          THEN calc.out[1] = 0
          ELSE calc.out[1] =
                  Floor0(MinutesOf(calc.args.actualStart, 0..23, {0, 30})
                         - MinutesOf(calc.args.scheduledStart, 0..23, {0, 30}))
    /\ (calc.fn = "calculateEarlyLeaveTime" /\ calc.out # NULL)
       => IF calc.args.actualEnd \in Absent
             \/ calc.args.scheduledEnd \in Absent
          THEN calc.out[1] = 0
          ELSE calc.out[1] =
                  Floor0(MinutesOf(calc.args.scheduledEnd, 0..23, {0, 30})
                         - MinutesOf(calc.args.actualEnd, 0..23, {0, 30}))

\* Arriving at 08:30 for a 09:00 start is not late: 0, not -30.
C21_Witness ==
    /\ calc.fn = "calculateLateTime"
    /\ calc.args.actualStart = HHMM(8, 30)
    /\ calc.args.scheduledStart = HHMM(9, 0)
    /\ calc.out = Some(0)

RECURSIVE SumTo(_, _)
\* f[1] + ... + f[n]
SumTo(f, n) == IF n = 0 THEN 0 ELSE SumTo(f, n - 1) + f[n]

\* The value of a nullable stored number in a sum
Stored(v) == IF v = NULL THEN 0 ELSE v[1]

HasBothTimes(record) ==
    /\ record.start_time \notin {NULL, EmptyString}
    /\ record.end_time \notin {NULL, EmptyString}

HolidayTypes == {Some("legal-holiday"), Some("extra-holiday")}

SummaryReturned == calc.fn = "calculateMonthlySummary" /\ calc.out # NULL

\* C22 as stated: workDays is the number of records whose work_type is not
\* legal-holiday or extra-holiday and whose start_time and end_time are both
\* present, records without a work_type included.
C22_WorkDaysCountAbsentType ==
    SummaryReturned =>
        LET records == calc.args.records
        IN  calc.out[1].workDays =
                Cardinality({i \in 1..Len(records) :
                    /\ records[i].work_type \notin HolidayTypes
                    /\ HasBothTimes(records[i])})

\* C22, amended: workDays is the number of records that have a work_type,
\* whose work_type is not legal-holiday or extra-holiday, and whose start_time
\* and end_time are both present; a record without a work_type is not counted.
C22_WorkDays ==
    SummaryReturned =>
        LET records == calc.args.records
        IN  calc.out[1].workDays =
                Cardinality({i \in 1..Len(records) :
                    /\ records[i].work_type \notin {NULL, Some("")}
                    /\ records[i].work_type \notin HolidayTypes
                    /\ HasBothTimes(records[i])})

\* A working day, a holiday worked and a record without a work_type, all
\* three with both times: one work day.
C22_Witness ==
    /\ SummaryReturned
    /\ Len(calc.args.records) = 3
    /\ calc.args.records[1].work_type = Some("work")
    /\ calc.args.records[2].work_type = Some("legal-holiday")
    /\ calc.args.records[3].work_type = NULL
    /\ \A i \in 1..3 : HasBothTimes(calc.args.records[i])
    /\ calc.out[1].workDays = 1

\* C23: totalWorkMinutes is the sum, over the records with both times present
\* (holidays included), of calculateWorkTime(start_time, end_time,
\* getPatternFromSettings(settings, work_pattern or 1)); the stored sums of a
\* record have no part in it.
C23_TotalWorkMinutes ==
    SummaryReturned =>
        LET records == calc.args.records
            worked == [i \in 1..Len(records) |->
                IF HasBothTimes(records[i])
                THEN calculateWorkTime(records[i].start_time,
                        records[i].end_time,
                        getPatternFromSettings(calc.args.settings,
                            IF records[i].work_pattern \in {NULL, Some(0)}
                            THEN 1 ELSE records[i].work_pattern[1]))
                ELSE 0]
        IN  calc.out[1].totalWorkMinutes = SumTo(worked, Len(records))

\* A day on pattern 2 (13:30 - 22:00, breaks of 60, 15 and 5 minutes: 430)
\* and a legal holiday without a pattern (09:00 - 12:30 on pattern 1, breaks
\* of 60, 10 and 10 minutes: 130), with stored overtime that differs from both.
C23_Witness ==
    /\ SummaryReturned
    /\ calc.args.settings # NULL
    /\ Len(calc.args.records) = 2
    /\ calc.args.records[1].work_pattern = Some(2)
    /\ calc.args.records[1].start_time = HHMM(13, 30)
    /\ calc.args.records[2].work_type = Some("legal-holiday")
    /\ calc.args.records[2].work_pattern = NULL
    /\ calc.args.records[2].overtime = Some(210)
    /\ calc.out[1].totalWorkMinutes = 430 + 130

\* C24: the stored overtime of a record goes to exactly one of
\* legalHolidayOvertime (legal-holiday), extraHolidayOvertime (extra-holiday)
\* and totalOvertime (any other work_type), so the three add up to the sum of
\* the stored overtime of all records; nightOvertime is the sum of the stored
\* night_overtime.
C24_OvertimeBuckets ==
    SummaryReturned =>
        LET records == calc.args.records
            n == Len(records)
            OvertimeWhere(Test(_)) ==
                SumTo([i \in 1..n |-> IF Test(records[i].work_type)
                                      THEN Stored(records[i].overtime) ELSE 0],
                      n)
            IsLegal(t) == t = Some("legal-holiday")
            IsExtra(t) == t = Some("extra-holiday")
            IsOther(t) == t \notin HolidayTypes
            EveryType(t) == TRUE
            out == calc.out[1]
        IN  /\ out.legalHolidayOvertime = OvertimeWhere(IsLegal)
            /\ out.extraHolidayOvertime = OvertimeWhere(IsExtra)
            /\ out.totalOvertime = OvertimeWhere(IsOther)
            /\ out.totalOvertime + out.legalHolidayOvertime
                 + out.extraHolidayOvertime = OvertimeWhere(EveryType)
            /\ out.nightOvertime =
                 SumTo([i \in 1..n |-> Stored(records[i].night_overtime)], n)

\* A late day (60), a legal holiday (210) and an extra holiday (45): one
\* stored overtime in each bucket.
C24_Witness ==
    /\ SummaryReturned
    /\ Len(calc.args.records) = 3
    /\ calc.args.records[1].work_type = Some("late")
    /\ calc.args.records[2].work_type = Some("legal-holiday")
    /\ calc.args.records[3].work_type = Some("extra-holiday")
    /\ calc.args.records[3].overtime = Some(45)
    /\ calc.out[1].totalOvertime = 60
    /\ calc.out[1].legalHolidayOvertime = 210
    /\ calc.out[1].extraHolidayOvertime = 45
    /\ calc.out[1].nightOvertime = 30 + 0 + 90

RECURSIVE ReadQuoted(_, _, _)
\* A quoted field from position i, just after its opening quote: "" is a
\* quote, a single quote closes the field; at is the position after it
ReadQuoted(text, i, field) ==
    LET quotes == {k \in i..Len(text) : text[k] = "\""}
        q == CHOOSE k \in quotes : \A other \in quotes : k <= other
    IN  IF quotes = {}
        THEN [field |-> field \o SubSeq(text, i, Len(text)),
              at |-> Len(text) + 1]
        ELSE IF q < Len(text) /\ text[q + 1] = "\""
        THEN ReadQuoted(text, q + 2, field \o SubSeq(text, i, q))
        ELSE [field |-> field \o SubSeq(text, i, q - 1), at |-> q + 1]

\* An unquoted field from position i up to the next comma or line break
ReadPlain(text, i, field) ==
    LET ends == {k \in i..Len(text) : text[k] \in {",", "\n"}}
        e == IF ends = {} THEN Len(text) + 1
             ELSE CHOOSE k \in ends : \A other \in ends : k <= other
    IN  [field |-> field \o SubSeq(text, i, e - 1), at |-> e]

RECURSIVE ReadRow(_, _, _)
\* The fields of the row that starts at position i; at is the position of
\* the next row, beyond the text after the last row
ReadRow(text, i, fields) ==
    LET read == IF i <= Len(text) /\ text[i] = "\""
                THEN LET q == ReadQuoted(text, i + 1, <<>>)
                     IN  ReadPlain(text, q.at, q.field)
                ELSE ReadPlain(text, i, <<>>)
    IN  IF read.at <= Len(text) /\ text[read.at] = ","
        THEN ReadRow(text, read.at + 1, Append(fields, read.field))
        ELSE [fields |-> Append(fields, read.field), at |-> read.at + 1]

RECURSIVE ReadRows(_, _, _)
ReadRows(text, i, rows) ==
    LET row == ReadRow(text, i, <<>>)
    IN  IF row.at > Len(text) THEN Append(rows, row.fields)
        ELSE ReadRows(text, row.at, Append(rows, row.fields))

\* A CSV text as RFC 4180 reads it: rows of fields
parseCSV(text) == ReadRows(text, 1, <<>>)

\* The days in a month by the calendar's rule
CalendarDays(year, month) ==
    IF month = 2
    THEN IF year % 4 = 0 /\ (year % 100 # 0 \/ year % 400 = 0) THEN 29 ELSE 28
    ELSE IF month \in {4, 6, 9, 11} THEN 30 ELSE 31

\* The record of a day in the list given to generateCSV, or NULL
RecordOn(records, day) ==
    IF \E i \in 1..Len(records) : records[i].work_date.day = day
    THEN Some(records[CHOOSE i \in 1..Len(records) :
                          records[i].work_date.day = day])
    ELSE NULL

\* The text of a stored time, '' when there is none
TimeText(v) == IF v \in {NULL, EmptyString} THEN <<>> ELSE v[1]

C26_ApprovedNotOverwritten ==
    [][\A before \in approvals : \A after \in approvals' :
          (RowKey(after) = RowKey(before)
              /\ before.status = APPROVAL_STATUS.APPROVED)
          => after.status # APPROVAL_STATUS.PENDING]_vars

\* approved_by, approved_at and rejection_reason of an Approval
DecisionOf(row) == <<row.approved_by, row.approved_at, row.rejection_reason>>

\* C27 as stated: every Approval whose status is draft or pending has
\* approved_by, approved_at and rejection_reason all null.
C27_UndecidedHasNoDecision ==
    \A row \in approvals :
        row.status \in {APPROVAL_STATUS.DRAFT, APPROVAL_STATUS.PENDING}
        => DecisionOf(row) = <<NULL, NULL, NULL>>

\* C27, amended: every draft Approval has approved_by, approved_at and
\* rejection_reason all null, and so has a pending Approval unless the request
\* was made on a row that carried a decision: requestApproval on an existing
\* row leaves the three fields as they were, so a request made from rejected
\* keeps the approver id, time and reason of the rejection.
C27_RequestKeepsDecision ==
    /\ [](\A row \in approvals :
            row.status = APPROVAL_STATUS.DRAFT
            => DecisionOf(row) = <<NULL, NULL, NULL>>)
    /\ [][\A ym \in Months :
            LET key == Key(Owner, ym) IN
            (RequestApproval(Owner, ym) /\ last'.result.success)
            => \A row \in RowsOf(approvals', key) :
                  /\ row.status = APPROVAL_STATUS.PENDING
                  /\ DecisionOf(row) =
                        (IF RowsOf(approvals, key) = {}
                         THEN <<NULL, NULL, NULL>>
                         ELSE DecisionOf(TheRow(RowsOf(approvals, key))))]_vars

\* A month requested again after its rejection: the pending row still names
\* the approver, the time and the reason of the rejection.
C27_Witness ==
    /\ last.op = "requestApproval"
    /\ last.result.success
    /\ StatusOf(last.before) = "rejected"
    /\ \E row \in RowsOf(approvals, last.id) :
          /\ row.status = APPROVAL_STATUS.PENDING
          /\ row.approved_by # NULL
          /\ row.approved_at # NULL
          /\ row.rejection_reason # NULL

\* C28: isMonthEditable returns true whenever the read of the approval fails
\* (the client reports an error other than "no row", or the call raises),
\* whatever status the stored row has, approved included.
C28_FailsOpen ==
    (calc.fn = "isMonthEditable" /\ calc.out # NULL /\ calc.args.err # "none")
    => calc.out = Some(TRUE)

\* The month is approved, the read failed on the network, and the answer is
\* "editable".
C28_Witness ==
    /\ calc.fn = "isMonthEditable"
    /\ calc.args.err = "network"
    /\ \E row \in calc.args.table : row.status = APPROVAL_STATUS.APPROVED
    /\ calc.out = Some(TRUE)

\* The number of a month on the line of all months
MonthIndex(year, month) == 12 * year + month

\* C30: a click on changeMonth(d), d = -1 or +1, moves the month index
\* 12 * currentYear + currentMonth by exactly d, and currentMonth is within
\* 1..12 after every sequence of clicks; the month getPreviousMonthSettings
\* reads is the one a click with d = -1 leads to.
C30_AdjacentMonth ==
    /\ [](calc.fn = "changeMonth" =>
            /\ calc.args.currentMonth \in 1..12
            /\ calc.out # NULL =>
                 /\ calc.out[1].previous.month \in 1..12
                 /\ MonthIndex(calc.out[1].previous.year,
                               calc.out[1].previous.month)
                      = MonthIndex(calc.args.currentYear,
                                   calc.args.currentMonth) - 1)
    /\ [][(calc.fn = "changeMonth" /\ calc' # calc) =>
            MonthIndex(calc'.args.currentYear, calc'.args.currentMonth)
              = MonthIndex(calc.args.currentYear, calc.args.currentMonth)
                  + calc'.out[1].delta]_vars

\* From December 2024: next (January 2025), previous (December 2024),
\* previous (November 2024, whose predecessor is October 2024).
C30_Witness ==
    /\ calc.fn = "changeMonth"
    /\ calc.args = [currentYear |-> 2024, currentMonth |-> 11, steps |-> 3]
    /\ calc.out = Some([delta |-> -1,
                        previous |-> [year |-> 2024, month |-> 10]])

\* C29: whenever no loadMonthData is in flight, monthlySettings,
\* dailyRecords and isEditable were each read for the month that is current,
\* however the clicks on changeMonth, the reloads after a save and the
\* completions of the reads interleave.
C29_CacheIsCurrent ==
    LoadsInFlight = {} =>
        /\ readFor.monthlySettings = Some(Current)
        /\ readFor.dailyRecords = Some(Current)
        /\ readFor.isEditable = Some(Current)

====
